---- MODULE Spec2Model ----
(***************************************************************************)
(* Non-autoregressive transformer (fairseq/models/nat/                     *)
(* nonautoregressive_transformer.py): the length-prediction protocol, the  *)
(* construction of the output-token buffer, the refinement step (with its  *)
(* optional history) and the length-beam expansion of NATransformerModel,  *)
(* the uniform position mapper, the embedding stage of the decoder (copy   *)
(* seeding, backward reindexing), the encoder output and its reordering,   *)
(* the construction of the split decoders, and the mean pooling.           *)
(* VanillaNatProj.forward_decoder / initialize_output_tokens /             *)
(* regenerate_length_beam (lines 311-398) are line-for-line the same as    *)
(* the NATransformerModel methods modelled here (lines 129-220).           *)
(*                                                                         *)
(* Tensors are functions over 0-based index ranges, as in the source: a    *)
(* B x T tensor t is [0..B-1 -> [0..T-1 -> value]].                        *)
(***************************************************************************)
EXTENDS Integers, Sequences, FiniteSets, TLC

VARIABLES
    pred_length_offset, \* args.pred_length_offset, fixed when the decoder is built
    decoder_out,        \* the DecoderOut threaded through a decode
    op,                 \* the operation that ran last
    inp,                \* the inputs and intermediate values of that operation
    err,                \* TRUE once an operation raised (index out of range)
    lp,                 \* the last call of forward_length_prediction
    ua,                 \* the last call of _uniform_assignment
    fx,                 \* the last call of the embedding stage of extract_features
    enc,                \* the encoder's last forward and the last reorder_encoder_out of its output
    dec,                \* the last construction of a split decoder and its last forward pass
    mp,                 \* the last call of _mean_pooling
    future_mask,        \* self._future_mask of one NATransformerDecoder
    mk,                 \* the last mask call or layer-stack pass on that decoder
    run                 \* two decodes on one model: their DecoderOuts and the last step

vars == <<pred_length_offset, decoder_out, op, inp, err, lp, ua, fx, enc, dec, mp,
          future_mask, mk, run>>

----------------------------------------------------------------------------
(* Bounds of the model *)

MaxBatch == 2    \* rows of a batch handed to initialize_output_tokens
MaxLen == 4      \* largest predicted / candidate length
NegSpan == 1     \* predicted lengths go down to -NegSpan (below the clamp)
MaxBeam == 2     \* largest beam_size
MaxRows == 4     \* largest number of rows after a length-beam expansion
MaxCells == 3    \* largest buffer (rows x width) on which every per-position prediction is tried
MaxSrc == 2      \* longest source sequence axis in a decode
MaxMaskDim == 3  \* longest sequence a self-attention mask is asked for
PassLayers == 2  \* layers of the NATransformerDecoder stack
MaxLayers == 6   \* largest layer count given to a split decoder
MaxHistory == 2  \* most snapshots a recorded decode appends
MaxSeedLen == 2  \* widest token buffer handed to the embedding stage
EncoderLayers == 1 \* layers of the encoder stack

----------------------------------------------------------------------------
(* Dictionary symbols and values *)

pad == "pad"
bos == "bos"
eos == "eos"
unk == "unk"

\* Python's None and a present value, for the optional fields and arguments
None == [some |-> FALSE]
Some(x) == [some |-> TRUE, val |-> x]

\* What `output.max(-1)` can return at one position: (_tokens, _scores).  The
\* decoder stack is a black box; every position independently gets one of these.
DecoderChoices == {<<"x", -1>>, <<"y", -2>>, <<pad, -3>>}

----------------------------------------------------------------------------
(* Tensor helpers *)

Width(t) == IF DOMAIN t = {} THEN 0 ELSE Cardinality(DOMAIN t[CHOOSE r \in DOMAIN t : TRUE])

NumRows(t) == Cardinality(DOMAIN t)

MaxOf(S) == CHOOSE m \in S : \A x \in S : x <= m

\* utils.new_arange(x, n): 0, 1, ..., n-1
new_arange(n) == [i \in 0..(n - 1) |-> i]

\* Mutant: the clamp is dropped
clamp_min_dropped(v, m) == v

\* Tensor.clamp_(min=m), elementwise
clamp_min(v, m) == [r \in DOMAIN v |-> IF v[r] < m THEN m ELSE v[r]]

\* Tensor.clamp(min=lo, max=hi), elementwise
clamp(v, lo, hi) ==
    [r \in DOMAIN v |-> IF v[r] < lo THEN lo ELSE IF v[r] > hi THEN hi ELSE v[r]]

\* Tensor.ne(value) / Tensor.eq(value) on a B x T tensor
ne(t, value) == [r \in DOMAIN t |-> [p \in DOMAIN t[r] |-> t[r][p] # value]]

\* mask.sum(1): per-row number of TRUE entries
sum1(mask) == [r \in DOMAIN mask |-> Cardinality({p \in DOMAIN mask[r] : mask[r][p]})]

\* ~mask on a B x T boolean tensor
invert(mask) == [r \in DOMAIN mask |-> [p \in DOMAIN mask[r] |-> ~mask[r][p]]]

\* x.new_zeros(B, W).fill_(value)
new_full(B, W, value) == [r \in 0..(B - 1) |-> [p \in 0..(W - 1) |-> value]]

\* Tensor.masked_fill_(mask, value)
masked_fill(t, mask, value) ==
    [r \in DOMAIN t |-> [p \in DOMAIN t[r] |-> IF mask[r][p] THEN value ELSE t[r][p]]]

\* t[:, 0] = value
set_column0(t, value) ==
    [r \in DOMAIN t |-> [p \in DOMAIN t[r] |-> IF p = 0 THEN value ELSE t[r][p]]]

\* Tensor.scatter_(1, index[:, None], value): row r is written at column index[r]
scatter(t, index, value) ==
    [r \in DOMAIN t |-> [p \in DOMAIN t[r] |-> IF p = index[r] THEN value ELSE t[r][p]]]

\* scatter_ raises when an index is outside the row
scatter_in_range(t, index) == \A r \in DOMAIN t : index[r] \in DOMAIN t[r]

\* The elements of a B x T tensor in row-major order, as a sequence
flatten(t) ==
    LET W == Width(t)
    IN  [k \in 1..(NumRows(t) * W) |-> t[(k - 1) \div W][(k - 1) % W]]

\* t[mask]: the elements at the TRUE positions of mask, in row-major order
RECURSIVE select_prefix(_, _, _)
select_prefix(ft, fm, k) ==
    IF k = 0 THEN <<>>
    ELSE IF fm[k] THEN Append(select_prefix(ft, fm, k - 1), ft[k])
         ELSE select_prefix(ft, fm, k - 1)

bool_index(t, mask) == select_prefix(flatten(t), flatten(mask), Len(flatten(t)))

\* Number of TRUE positions of mask that come before (r, p) in row-major order
rank_before(mask, r, p) ==
    LET W == Width(mask)
    IN  Cardinality({k \in 0..(r * W + p - 1) : mask[k \div W][k % W]})

\* Tensor.masked_scatter_(mask, source): the k-th TRUE position of mask (row-major)
\* receives the k-th element of source
masked_scatter(t, mask, source) ==
    [r \in DOMAIN t |->
        [p \in DOMAIN t[r] |->
            IF mask[r][p] THEN source[rank_before(mask, r, p) + 1] ELSE t[r][p]]]

----------------------------------------------------------------------------
(* Length prediction: NATransformerDecoder.forward_length_prediction *)

NumLengthClasses == 256
LengthBias == 128
MaxLengthClass == 255
MinLength == 2

\* An encoder_out carries the T x B x C hidden states (only T and B matter here)
\* and a list encoder_padding_mask that is empty or holds one B x T mask.
EncoderOut(T, B, masks) == [T |-> T, B |-> B, encoder_padding_mask |-> masks]

\* Mutant: the padded positions are counted instead of the others
src_lengs_of_pad_count(encoder_out) ==
    IF Len(encoder_out.encoder_padding_mask) > 0
    THEN sum1(encoder_out.encoder_padding_mask[1])
    ELSE [r \in 0..(encoder_out.B - 1) |-> encoder_out.T]

\* src_lengs (lines 663-670); computed only when pred_length_offset is set
src_lengs_of(encoder_out) ==
    IF Len(encoder_out.encoder_padding_mask) > 0
    THEN sum1(invert(encoder_out.encoder_padding_mask[1]))
    ELSE [r \in 0..(encoder_out.B - 1) |-> encoder_out.T]

\* Mutant: the length target is not clamped to the classes
length_tgt_from_truth_unclamped(offset, encoder_out, tgt_tokens) ==
    LET tgt_lengs == sum1(ne(tgt_tokens, pad))
        src_lengs == src_lengs_of(encoder_out)
    IN  IF offset
        THEN [r \in DOMAIN tgt_lengs |-> tgt_lengs[r] - src_lengs[r] + LengthBias]
        ELSE tgt_lengs

\* Ground-truth path (lines 672-679)
length_tgt_from_truth(offset, encoder_out, tgt_tokens) ==
    LET tgt_lengs == sum1(ne(tgt_tokens, pad))
        src_lengs == src_lengs_of(encoder_out)
        length_tgt ==
            IF offset
            THEN [r \in DOMAIN tgt_lengs |-> tgt_lengs[r] - src_lengs[r] + LengthBias]
            ELSE tgt_lengs
    IN  clamp(length_tgt, 0, MaxLengthClass)

\* Mutant: the bias is not taken back out of the predicted class
length_tgt_from_argmax_biased(offset, encoder_out, pred_lengs) ==
    LET src_lengs == src_lengs_of(encoder_out)
    IN  IF offset
        THEN [r \in DOMAIN pred_lengs |-> pred_lengs[r] + src_lengs[r]]
        ELSE pred_lengs

\* Mutant: the inference path clamps to the classes as the ground-truth path does
length_tgt_from_argmax_clamped(offset, encoder_out, pred_lengs) ==
    LET src_lengs == src_lengs_of(encoder_out)
    IN  clamp(IF offset
              THEN [r \in DOMAIN pred_lengs |-> pred_lengs[r] - LengthBias + src_lengs[r]]
              ELSE pred_lengs, 0, MaxLengthClass)

\* Inference path (lines 681-688); pred_lengs is length_out.max(-1)[1]
length_tgt_from_argmax(offset, encoder_out, pred_lengs) ==
    LET src_lengs == src_lengs_of(encoder_out)
    IN  IF offset
        THEN [r \in DOMAIN pred_lengs |-> pred_lengs[r] - LengthBias + src_lengs[r]]
        ELSE pred_lengs

forward_length_prediction(offset, pred_lengs, encoder_out, tgt_tokens) ==
    IF tgt_tokens.some
    THEN length_tgt_from_truth(offset, encoder_out, tgt_tokens.val)
    ELSE length_tgt_from_argmax(offset, encoder_out, pred_lengs)

----------------------------------------------------------------------------
(* Buffer construction *)

DecoderOut(tokens, scores, attn, step, max_step, history) ==
    [output_tokens |-> tokens, output_scores |-> scores, attn |-> attn,
     step |-> step, max_step |-> max_step, history |-> history]

\* Mutant: the unk fill reaches one position too far (<= for <)
initial_output_tokens_unk_too_far(B, length_tgt_raw) ==
    LET length_tgt == clamp_min(length_tgt_raw, MinLength)
        max_length == MaxOf({length_tgt[r] : r \in DOMAIN length_tgt})
        idx_length == new_arange(max_length)
        filled == new_full(B, max_length, pad)
        below == [r \in 0..(B - 1) |->
                     [p \in DOMAIN idx_length |-> idx_length[p] <= length_tgt[r]]]
        unked == masked_fill(filled, below, unk)
        begun == set_column0(unked, bos)
        index == [r \in DOMAIN length_tgt |-> length_tgt[r] - 1]
    IN  [tokens |-> scatter(begun, index, eos),
         raised |-> max_length < 1 \/ ~scatter_in_range(begun, index)]

\* lines 168-178: clamp, pad-fill, unk-fill below the length, bos, eos
initial_output_tokens_of(B, length_tgt_raw) ==
    LET length_tgt == clamp_min(length_tgt_raw, MinLength)
        max_length == MaxOf({length_tgt[r] : r \in DOMAIN length_tgt})
        idx_length == new_arange(max_length)
        filled == new_full(B, max_length, pad)
        below == [r \in 0..(B - 1) |->
                     [p \in DOMAIN idx_length |-> idx_length[p] < length_tgt[r]]]
        unked == masked_fill(filled, below, unk)
        begun == set_column0(unked, bos)
        index == [r \in DOMAIN length_tgt |-> length_tgt[r] - 1]
    IN  [tokens |-> scatter(begun, index, eos),
         raised |-> max_length < 1 \/ ~scatter_in_range(begun, index)]

\* lines 161-191
initialize_output_tokens(offset, encoder_out, pred_lengs) ==
    LET length_tgt == forward_length_prediction(offset, pred_lengs, encoder_out, None)
        built == initial_output_tokens_of(encoder_out.B, length_tgt)
        scores == [r \in DOMAIN built.tokens |-> [p \in DOMAIN built.tokens[r] |-> 0]]
    IN  [out |-> DecoderOut(built.tokens, scores, None, 0, 0, None),
         length_tgt |-> length_tgt,
         raised |-> built.raised]

\* Mutant: the window is centred with (beam_size + 1) // 2
regenerate_length_beam_ceil(d, beam_size) ==
    LET output_tokens == d.output_tokens
        center == sum1(ne(output_tokens, pad))
        arange == new_arange(beam_size)
        length_tgt_raw ==
            [k \in 0..(NumRows(output_tokens) * beam_size - 1) |->
                center[k \div beam_size] + arange[k % beam_size]
                    - ((beam_size + 1) \div 2)]
        built == initial_output_tokens_of(NumRows(output_tokens) * beam_size, length_tgt_raw)
        scores == [r \in DOMAIN built.tokens |-> [p \in DOMAIN built.tokens[r] |-> 0]]
    IN  [out |-> [d EXCEPT !.output_tokens = built.tokens, !.output_scores = scores],
         length_tgt |-> length_tgt_raw,
         raised |-> built.raised,
         \* the argument after the call: every tensor written in place (clamp_,
         \* fill_, masked_fill_, scatter_) was made by the call itself
         decoder_out |-> d]

\* Mutant: the expansion starts a new state, as initialize_output_tokens does
regenerate_length_beam_fresh(d, beam_size) ==
    LET expanded == regenerate_length_beam_ceil(d, beam_size)
    IN  [expanded EXCEPT !.out = DecoderOut(expanded.out.output_tokens,
                                            expanded.out.output_scores, None, 0, 0, None)]

\* lines 193-220; beam_size // 2 is floor division
regenerate_length_beam(d, beam_size) ==
    LET output_tokens == d.output_tokens
        center == sum1(ne(output_tokens, pad))
        arange == new_arange(beam_size)
        \* length_tgt[:, None] + arange(1, beam_size) - beam_size // 2, then view(-1)
        length_tgt_raw ==
            [k \in 0..(NumRows(output_tokens) * beam_size - 1) |->
                center[k \div beam_size] + arange[k % beam_size] - (beam_size \div 2)]
        built == initial_output_tokens_of(NumRows(output_tokens) * beam_size, length_tgt_raw)
        scores == [r \in DOMAIN built.tokens |-> [p \in DOMAIN built.tokens[r] |-> 0]]
    IN  [out |-> [d EXCEPT !.output_tokens = built.tokens, !.output_scores = scores],
         length_tgt |-> length_tgt_raw,
         raised |-> built.raised,
         \* the argument after the call: every tensor written in place (clamp_,
         \* fill_, masked_fill_, scatter_) was made by the call itself
         decoder_out |-> d]

----------------------------------------------------------------------------
(* The refinement step *)

\* Mutant: the step is advanced by the refinement step itself
replace_after_step_advancing(d, tokens, scores, history) ==
    [d EXCEPT !.output_tokens = tokens, !.output_scores = scores,
              !.attn = None, !.history = history, !.step = d.step + 1]

\* Mutant: the buffer itself is appended, not a copy of it
clone_skipped(t) == [alias |-> TRUE, val |-> t]

\* output_tokens.clone(), line 152: a new tensor holding the values the buffer has
\* now.  A list entry is either such a copy or the buffer object itself (alias),
\* which later in-place updates would show through.
clone(t) == [alias |-> FALSE, val |-> t]

\* decoder_out._replace(output_tokens=..., output_scores=..., attn=None, history=...)
replace_after_step(d, tokens, scores, history) ==
    [d EXCEPT !.output_tokens = tokens, !.output_scores = scores,
              !.attn = None, !.history = history]

\* The refinement step with another choice of the positions to write
forward_decoder_masked(d, argmax_tokens, argmax_scores, output_masks) ==
    LET tokens == masked_scatter(d.output_tokens, output_masks,
                                 bool_index(argmax_tokens, output_masks))
        scores == masked_scatter(d.output_scores, output_masks,
                                 bool_index(argmax_scores, output_masks))
        history == IF d.history.some
                   THEN Some(Append(d.history.val, clone(tokens)))
                   ELSE d.history
    IN  [d EXCEPT !.output_tokens = tokens, !.output_scores = scores,
                  !.attn = None, !.history = history]

\* Mutant: the begin and end markers are protected from the update
forward_decoder_keeping_markers(d, argmax_tokens, argmax_scores) ==
    forward_decoder_masked(d, argmax_tokens, argmax_scores,
        [r \in DOMAIN d.output_tokens |-> [p \in DOMAIN d.output_tokens[r] |->
            d.output_tokens[r][p] \notin {pad, bos, eos}]])

\* Mutant: every position is written, pad included
forward_decoder_writing_pad(d, argmax_tokens, argmax_scores) ==
    forward_decoder_masked(d, argmax_tokens, argmax_scores,
        [r \in DOMAIN d.output_tokens |-> [p \in DOMAIN d.output_tokens[r] |-> TRUE]])

\* Mutant: only the positions that still hold unk are written
forward_decoder_unk_only(d, argmax_tokens, argmax_scores) ==
    forward_decoder_masked(d, argmax_tokens, argmax_scores,
        [r \in DOMAIN d.output_tokens |-> [p \in DOMAIN d.output_tokens[r] |->
            d.output_tokens[r][p] = unk]])

\* lines 129-159; argmax_tokens / argmax_scores are `_tokens` / `_scores`, the
\* result of output.max(-1) for every row and position of the buffer
forward_decoder(d, argmax_tokens, argmax_scores) ==
    LET output_tokens == d.output_tokens
        output_scores == d.output_scores
        output_masks == ne(output_tokens, pad)
        tokens == masked_scatter(output_tokens, output_masks,
                                 bool_index(argmax_tokens, output_masks))
        scores == masked_scatter(output_scores, output_masks,
                                 bool_index(argmax_scores, output_masks))
        history == IF d.history.some
                   THEN Some(Append(d.history.val, clone(tokens)))
                   ELSE d.history
    IN  replace_after_step(d, tokens, scores, history)

----------------------------------------------------------------------------
(* A decode: initialize, then refinement steps and length-beam expansions *)

EmptyTensor == new_full(0, 0, pad)

NoCall == [kind |-> "none"]

\* The padding mask of one source row of n tokens in a batch of width T, padded
\* on the left or on the right
RowMask(T, n, left) == [p \in 0..(T - 1) |-> IF left THEN p < T - n ELSE p >= n]

\* The B x T padding masks: the batcher pads every row on the same side, and
\* every row keeps at least one source position
PaddingMasks(B, T) ==
    {[r \in 0..(B - 1) |-> RowMask(T, lens[r], left)] :
        lens \in [0..(B - 1) -> 1..T], left \in BOOLEAN}

\* The encoder outputs of a batch of B rows: with and without a padding mask
EncoderOuts(B, T) ==
    {EncoderOut(T, B, <<>>)} \cup {EncoderOut(T, B, <<m>>) : m \in PaddingMasks(B, T)}

\* The arg-max classes tried in a decode: the ones around length 0..MaxLen
DecodeClasses(offset) ==
    IF offset
    THEN (LengthBias - MaxSrc - NegSpan)..(LengthBias + MaxLen - 1)
    ELSE 0..MaxLen

Initialize ==
    /\ op = "none"
    /\ \E B \in 1..MaxBatch, T \in 1..MaxSrc :
         \E encoder_out \in EncoderOuts(B, T),
            pred_lengs \in [0..(B - 1) -> DecodeClasses(pred_length_offset)] :
            LET res == initialize_output_tokens(pred_length_offset, encoder_out, pred_lengs)
            IN  /\ \A r \in DOMAIN res.length_tgt :
                       res.length_tgt[r] \in (0 - NegSpan)..MaxLen
                /\ decoder_out' = res.out
                /\ err' = res.raised
                /\ inp' = [kind |-> "initialize", length_tgt |-> res.length_tgt]
    /\ op' = "initialize"
    /\ UNCHANGED <<pred_length_offset, lp, ua, fx, enc, dec, mp, future_mask, mk, run>>

\* The arg-max results tried on a buffer t: every assignment of a choice to every
\* position when t has at most MaxCells positions, and for a larger t the ones
\* that are constant along each row, one choice on the even rows and one on the odd.
DecoderOutputs(t) ==
    IF NumRows(t) * Width(t) <= MaxCells
    THEN [DOMAIN t -> [0..(Width(t) - 1) -> DecoderChoices]]
    ELSE {[r \in DOMAIN t |-> [p \in 0..(Width(t) - 1) |-> c[r % 2]]] :
             c \in [0..1 -> DecoderChoices]}

ForwardDecoder ==
    /\ op # "none"
    /\ ~err
    /\ \E out \in DecoderOutputs(decoder_out.output_tokens) :
            LET argmax_tokens == [r \in DOMAIN out |-> [p \in DOMAIN out[r] |-> out[r][p][1]]]
                argmax_scores == [r \in DOMAIN out |-> [p \in DOMAIN out[r] |-> out[r][p][2]]]
            IN  /\ decoder_out' = forward_decoder(decoder_out, argmax_tokens, argmax_scores)
                /\ inp' = [kind |-> "forward_decoder", argmax_tokens |-> argmax_tokens,
                           argmax_scores |-> argmax_scores]
    /\ op' = "forward_decoder"
    /\ UNCHANGED <<pred_length_offset, err, lp, ua, fx, enc, dec, mp, future_mask, mk, run>>

RegenerateLengthBeam ==
    /\ op # "none"
    /\ ~err
    /\ \E beam_size \in 1..MaxBeam :
            LET res == regenerate_length_beam(decoder_out, beam_size)
            IN  /\ NumRows(decoder_out.output_tokens) * beam_size <= MaxRows
                /\ \A k \in DOMAIN res.length_tgt : res.length_tgt[k] <= MaxLen
                /\ decoder_out' = res.out
                /\ err' = res.raised
                /\ inp' = [kind |-> "regenerate_length_beam", beam_size |-> beam_size,
                           length_tgt |-> res.length_tgt]
    /\ op' = "regenerate_length_beam"
    /\ UNCHANGED <<pred_length_offset, lp, ua, fx, enc, dec, mp, future_mask, mk, run>>

\* torch.empty(0): the mask cache of a decoder no mask was asked of yet
EmptyMask == [size |-> 0, device |-> "cpu", m |-> <<>>]

Init ==
    /\ pred_length_offset \in BOOLEAN
    /\ decoder_out = DecoderOut(EmptyTensor, EmptyTensor, None, 0, 0, None)
    /\ op = "none"
    /\ inp = NoCall
    /\ err = FALSE
    /\ lp = NoCall
    /\ ua = NoCall
    /\ fx = NoCall
    /\ enc = NoCall
    /\ dec = NoCall
    /\ mp = NoCall
    /\ future_mask = EmptyMask
    /\ mk = NoCall
    /\ run = NoCall

Next == Initialize \/ ForwardDecoder \/ RegenerateLengthBeam

Spec == Init /\ [][Next]_vars

----------------------------------------------------------------------------
(* Properties of the decode *)

Tokens == decoder_out.output_tokens
Scores == decoder_out.output_scores

Max2(a, b) == IF a >= b THEN a ELSE b

\* Number of non-pad positions of a row, and its last non-pad position (-1 if none)
LiveLen(row) == Cardinality({p \in DOMAIN row : row[p] # pad})
LastLive(row) == MaxOf({p \in DOMAIN row : row[p] # pad} \cup {-1})

Built == op \in {"initialize", "regenerate_length_beam"}

\* The length of row r after the clamp to >= 2
TargetLen(r) == Max2(MinLength, inp.length_tgt[r])

\* C1: a buffer built by initialize_output_tokens or regenerate_length_beam has, in
\* every row r with clamped length Lt, bos at position 0, eos at position Lt-1, unk
\* strictly between and pad from position Lt on; its width is the largest Lt.
C1_BufferShape ==
    (Built /\ ~err) =>
        /\ DOMAIN Tokens = DOMAIN inp.length_tgt
        /\ \A r \in DOMAIN Tokens :
            /\ DOMAIN Tokens[r] = 0..(MaxOf({TargetLen(q) : q \in DOMAIN Tokens}) - 1)
            /\ \A p \in DOMAIN Tokens[r] :
                Tokens[r][p] = IF p = 0 THEN bos
                               ELSE IF p = TargetLen(r) - 1 THEN eos
                               ELSE IF p < TargetLen(r) THEN unk
                               ELSE pad

\* A length-beam expansion produced rows of different lengths, one with unk inside
\* and one with pad after its end marker.
C1_Witness ==
    /\ op = "regenerate_length_beam"
    /\ ~err
    /\ \E r, q \in DOMAIN Tokens :
        /\ TargetLen(r) = 4 /\ Tokens[r][1] = unk
        /\ TargetLen(q) = 3 /\ Tokens[q][3] = pad

C3_PadFrozen ==
    [][op' = "forward_decoder" =>
        \A r \in DOMAIN Tokens : \A p \in DOMAIN Tokens[r] :
            Tokens[r][p] = pad =>
                /\ Tokens'[r][p] = pad
                /\ Scores'[r][p] = Scores[r][p]]_vars

\* A step ran whose decoder predicted a real token at a construction-time pad
\* position (score still 0), next to a live position.
C3_Witness ==
    /\ op = "forward_decoder"
    /\ \E r \in DOMAIN Tokens : \E p \in DOMAIN Tokens[r] :
        /\ Tokens[r][p] = pad
        /\ Scores[r][p] = 0
        /\ inp.argmax_tokens[r][p] = "x"
        /\ Tokens[r][0] = "x"

InnerLive(row) == {p \in DOMAIN row : 0 < p /\ p < LastLive(row) /\ row[p] # pad}

\* Every inner live position takes the decoder's token and score of that row and
\* position.
InnerTakesArgmax ==
    \A r \in DOMAIN Tokens : \A p \in InnerLive(Tokens[r]) :
        /\ Tokens'[r][p] = inp'.argmax_tokens[r][p]
        /\ Scores'[r][p] = inp'.argmax_scores[r][p]

OneRow(row) == [r \in 0..0 |-> [p \in 0..(Len(row) - 1) |-> row[p + 1]]]

Everywhere(t, v) == \A r \in DOMAIN t : \A p \in DOMAIN t[r] : t[r][p] = v

C5_StepIncremented ==
    [][op' = "forward_decoder" => decoder_out'.step = decoder_out.step + 1]_vars

\* C5 amended: forward_decoder returns a state whose step equals the input's step;
\* the step counter is left to the caller.
C5_StepUnchanged ==
    [][op' = "forward_decoder" => decoder_out'.step = decoder_out.step]_vars

\* Two refinement steps have run (the buffer holds a token only a step can write,
\* with a pad written by an earlier step), and step is still 0.
C5_Witness ==
    /\ op = "forward_decoder"
    /\ decoder_out.step = 0
    /\ \E r \in DOMAIN Tokens : \E p, q \in DOMAIN Tokens[r] :
        /\ Tokens[r][p] = "x"
        /\ Tokens[r][q] = pad /\ Scores[r][q] = -3 /\ inp.argmax_tokens[r][q] # pad

\* C6: regenerate_length_beam returns beam_size rows per original row, contiguous,
\* and row r * B + i has live length max(2, c_r - floor(B / 2) + i), c_r the
\* non-pad count of original row r.
C6_BeamLengths ==
    [][op' = "regenerate_length_beam" =>
        LET B == inp'.beam_size
        IN  /\ DOMAIN Tokens' = 0..(NumRows(Tokens) * B - 1)
            /\ \A r \in DOMAIN Tokens : \A i \in 0..(B - 1) :
                 LiveLen(Tokens'[r * B + i]) =
                     Max2(2, LiveLen(Tokens[r]) - (B \div 2) + i)]_vars

\* A beam of 2 over several rows, with a candidate below 2 and one above 2.
C6_Witness ==
    /\ op = "regenerate_length_beam"
    /\ inp.beam_size = 2
    /\ NumRows(Tokens) = 4
    /\ \E k, m \in DOMAIN Tokens :
        /\ inp.length_tgt[k] < 2 /\ LiveLen(Tokens[k]) = 2
        /\ inp.length_tgt[m] = 3 /\ LiveLen(Tokens[m]) = 3

\* C7: every row of a built buffer has at least 2 non-pad positions, a length below
\* 2 gives the row [bos, eos, pad, ...], and no write lands outside the buffer.
C7_MinimumRow ==
    Built =>
        /\ ~err
        /\ \A r \in DOMAIN Tokens :
            /\ LiveLen(Tokens[r]) >= 2
            /\ inp.length_tgt[r] < 2 =>
                 \A p \in DOMAIN Tokens[r] :
                     Tokens[r][p] = IF p = 0 THEN bos ELSE IF p = 1 THEN eos ELSE pad

\* initialize ran in offset mode with a negative length in one row and a length
\* above 2 in another.
C7_Witness ==
    /\ op = "initialize"
    /\ pred_length_offset
    /\ Width(Tokens) = 3
    /\ \E r, q \in DOMAIN Tokens :
        /\ inp.length_tgt[r] < 0 /\ Tokens[r][2] = pad
        /\ inp.length_tgt[q] = 3

----------------------------------------------------------------------------
(* forward_length_prediction on its own: one call from ground truth or from the
   arg-max class, and the call that feeds a training target back as the class *)

LongLen == 300   \* a sequence long enough for the offset to leave the classes

SrcWidths == {MaxSrc, LongLen}

\* The encoder outputs tried: no mask, or rows of the shortest and the longest
\* source length
LengthEncoderOuts(B) ==
    UNION {{EncoderOut(T, B, <<>>)}
               \cup {EncoderOut(T, B, <<[r \in 0..(B - 1) |-> RowMask(T, lens[r], left)]>>) :
                        lens \in [0..(B - 1) -> {1, T}], left \in BOOLEAN} :
           T \in SrcWidths}

\* The target lengths tried, and a right-padded target batch with those lengths
TgtLenSamples == {n \in 1..LongLen : n <= 2 \/ n = MaxLen \/ n = LongLen}

TargetBatch(lens) ==
    LET W == MaxOf({lens[r] : r \in DOMAIN lens})
    IN  [r \in DOMAIN lens |->
            [p \in 0..(W - 1) |->
                IF p < lens[r] - 1 THEN "x" ELSE IF p = lens[r] - 1 THEN eos ELSE pad]]

\* The arg-max classes tried: the ends of the class range and the bias
ClassSamples ==
    {c \in 0..(NumLengthClasses - 1) :
        c <= 1 \/ c = LengthBias - 1 \/ c = LengthBias \/ c = NumLengthClasses - 1}

LengthFromTruth ==
    /\ lp.kind = "none"
    /\ \E B \in 1..MaxBatch :
         \E encoder_out \in LengthEncoderOuts(B), lens \in [0..(B - 1) -> TgtLenSamples] :
            LET tgt_tokens == TargetBatch(lens)
                length_out == [r \in 0..(B - 1) |-> 0]
            IN  lp' = [kind |-> "truth", encoder_out |-> encoder_out,
                       tgt_tokens |-> tgt_tokens,
                       length_tgt |-> forward_length_prediction(
                           pred_length_offset, length_out, encoder_out, Some(tgt_tokens))]
    /\ UNCHANGED <<pred_length_offset, decoder_out, op, inp, err, ua, fx, enc, dec, mp, future_mask, mk, run>>

LengthFromArgmax ==
    /\ lp.kind = "none"
    /\ \E B \in 1..MaxBatch :
         \E encoder_out \in LengthEncoderOuts(B), pred_lengs \in [0..(B - 1) -> ClassSamples] :
            lp' = [kind |-> "argmax", encoder_out |-> encoder_out,
                   pred_lengs |-> pred_lengs,
                   length_tgt |-> forward_length_prediction(
                       pred_length_offset, pred_lengs, encoder_out, None)]
    /\ UNCHANGED <<pred_length_offset, decoder_out, op, inp, err, ua, fx, enc, dec, mp, future_mask, mk, run>>

\* The classifier predicts exactly the class it was trained on for this batch
LengthRoundTrip ==
    /\ lp.kind = "truth"
    /\ lp' = [kind |-> "roundtrip", encoder_out |-> lp.encoder_out,
              tgt_tokens |-> lp.tgt_tokens, pred_lengs |-> lp.length_tgt,
              length_tgt |-> forward_length_prediction(
                  pred_length_offset, lp.length_tgt, lp.encoder_out, None)]
    /\ UNCHANGED <<pred_length_offset, decoder_out, op, inp, err, ua, fx, enc, dec, mp, future_mask, mk, run>>

NextLength == LengthFromTruth \/ LengthFromArgmax \/ LengthRoundTrip

SpecLength == Init /\ [][NextLength]_vars

\* The source length of row r: its non-pad positions, or the whole axis without a mask
SourceLen(encoder_out, r) ==
    IF encoder_out.encoder_padding_mask = <<>>
    THEN encoder_out.T
    ELSE Cardinality({p \in 0..(encoder_out.T - 1) :
                         ~encoder_out.encoder_padding_mask[1][r][p]})

\* The number of non-pad tokens of target row r
TargetLenOf(tgt_tokens, r) ==
    Cardinality({p \in DOMAIN tgt_tokens[r] : tgt_tokens[r][p] # pad})

OffsetOf(r) == TargetLenOf(lp.tgt_tokens, r) - SourceLen(lp.encoder_out, r) + 128

\* C8: in offset mode, for Ls >= 1, Lt >= 2 and Lt - Ls + 128 in [0, 255], the
\* training target is Lt - Ls + 128 and converting that class back gives Lt.
C8_RoundTrip ==
    (pred_length_offset /\ lp.kind \in {"truth", "roundtrip"}) =>
        \A r \in DOMAIN lp.length_tgt :
            (/\ SourceLen(lp.encoder_out, r) >= 1
             /\ TargetLenOf(lp.tgt_tokens, r) >= 2
             /\ OffsetOf(r) \in 0..255) =>
                /\ lp.kind = "truth" => lp.length_tgt[r] = OffsetOf(r)
                /\ lp.kind = "roundtrip" =>
                       lp.length_tgt[r] = TargetLenOf(lp.tgt_tokens, r)

\* A round trip over a batch with a row that comes back (target longer than the
\* source) and a row whose offset left the classes and does not.
C8_Witness ==
    /\ pred_length_offset
    /\ lp.kind = "roundtrip"
    /\ \E r, q \in DOMAIN lp.length_tgt :
        /\ OffsetOf(r) \in 129..255
        /\ lp.length_tgt[r] = TargetLenOf(lp.tgt_tokens, r)
        /\ OffsetOf(q) > 255
        /\ lp.length_tgt[q] # TargetLenOf(lp.tgt_tokens, q)

\* C9 as stated: every length target returned is in [0, 255], in both modes and
\* on both paths.
C9_AlwaysAClass ==
    lp.kind # "none" => \A r \in DOMAIN lp.length_tgt : lp.length_tgt[r] \in 0..255

\* C9 amended: the length target is in [0, 255] on the ground-truth path in both
\* modes and on the inference path in absolute mode; on the inference path in
\* offset mode it is c - 128 + Ls for a class c, so it lies in [Ls - 128, Ls + 127]
\* and can be negative or above 255.
C9_RangeByPath ==
    lp.kind # "none" =>
        \A r \in DOMAIN lp.length_tgt :
            IF lp.kind = "truth" \/ ~pred_length_offset
            THEN lp.length_tgt[r] \in 0..255
            ELSE lp.length_tgt[r] \in (SourceLen(lp.encoder_out, r) - 128)
                                          ..(SourceLen(lp.encoder_out, r) + 127)

\* An inference call in offset mode returned a negative length for one row and a
\* length above 255 for another.
C9_Witness ==
    /\ pred_length_offset
    /\ lp.kind = "argmax"
    /\ \E r, q \in DOMAIN lp.length_tgt :
        /\ lp.length_tgt[r] < 0
        /\ lp.length_tgt[q] > 255

----------------------------------------------------------------------------
(* The uniform position mapper: _uniform_assignment, in single precision *)

MaxMapSrc == 5   \* longest source length handed to _uniform_assignment
MaxMapTrg == 5   \* longest target length handed to _uniform_assignment

\* A positive single-precision number is m / 2^k with 2^23 <= m < 2^24; zero is m = 0
MantissaBits == 24
F32Zero == [m |-> 0, k |-> 0]

\* num / den rounded to the nearest integer, ties to the even one (num >= 0, den > 0)
RoundHalfEven(num, den) ==
    LET q == num \div den
        rem == num % den
    IN  IF 2 * rem < den THEN q
        ELSE IF 2 * rem > den THEN q + 1
        ELSE IF q % 2 = 0 THEN q ELSE q + 1

\* A mantissa that rounding carried up to 2^24 is renormalised
F32Norm(m, k) ==
    IF m = 2 ^ MantissaBits THEN [m |-> 2 ^ (MantissaBits - 1), k |-> k - 1]
    ELSE [m |-> m, k |-> k]

\* float(a) / float(b) for integers a >= 0, b > 0 (both exact in single precision)
F32Div(a, b) ==
    IF a = 0 THEN F32Zero
    ELSE LET k == CHOOSE e \in 0..30 :
                      /\ 2 ^ (MantissaBits - 1) * b <= a * 2 ^ e
                      /\ a * 2 ^ e < 2 ^ MantissaBits * b
         IN  F32Norm(RoundHalfEven(a * 2 ^ k, b), k)

\* x * float(j) for an integer j >= 0
F32MulInt(x, j) ==
    IF x.m = 0 \/ j = 0 THEN F32Zero
    ELSE LET prod == x.m * j
             s == CHOOSE e \in 0..7 :
                      /\ 2 ^ (MantissaBits - 1 + e) <= prod
                      /\ prod < 2 ^ (MantissaBits + e)
         IN  F32Norm(RoundHalfEven(prod, 2 ^ s), x.k - s)

\* torch.round(x).long(): to the nearest integer, ties to even
F32Round(x) ==
    IF x.m = 0 THEN 0
    ELSE IF x.k >= 0 THEN RoundHalfEven(x.m, 2 ^ x.k)
    ELSE x.m * 2 ^ (0 - x.k)

\* Mutant: the step size is src_lens / (trg_lens - 1)
uniform_assignment_long_step(src_lens, trg_lens) ==
    LET max_trg_len == MaxOf({trg_lens[r] : r \in DOMAIN trg_lens})
        steps == [r \in DOMAIN src_lens |-> F32Div(src_lens[r], trg_lens[r] - 1)]
        index_t == new_arange(max_trg_len)
    IN  [r \in DOMAIN src_lens |->
            [j \in DOMAIN index_t |-> F32Round(F32MulInt(steps[r], index_t[j]))]]

\* lines 37-44
uniform_assignment(src_lens, trg_lens) ==
    LET max_trg_len == MaxOf({trg_lens[r] : r \in DOMAIN trg_lens})
        steps == [r \in DOMAIN src_lens |-> F32Div(src_lens[r] - 1, trg_lens[r] - 1)]
        index_t == new_arange(max_trg_len)
    IN  [r \in DOMAIN src_lens |->
            [j \in DOMAIN index_t |-> F32Round(F32MulInt(steps[r], index_t[j]))]]

\* Mutant: the indices of the positions past a row's own length are kept
mapped_inputs_unmasked(src_masks, tgt_masks) ==
    uniform_assignment(sum1(src_masks), sum1(tgt_masks))

\* The B x T mask of a batch whose row r holds lens[r] tokens followed by padding
length_mask(lens) ==
    LET T == MaxOf({lens[r] : r \in DOMAIN lens})
    IN  [r \in DOMAIN lens |-> [p \in 0..(T - 1) |-> p < lens[r]]]

\* forward_copying_source, lines 642-646: the gather index.  src_masks and
\* tgt_masks are TRUE at the tokens of the source and of the target.
mapped_inputs(src_masks, tgt_masks) ==
    LET length_sources == sum1(src_masks)
        length_targets == sum1(tgt_masks)
    IN  masked_fill(uniform_assignment(length_sources, length_targets),
                    invert(tgt_masks), 0)

UniformAssignment ==
    /\ ua.kind = "none"
    /\ \E B \in 1..MaxBatch :
         \E src_lens \in [0..(B - 1) -> 1..MaxMapSrc],
            trg_lens \in [0..(B - 1) -> 2..MaxMapTrg] :
            ua' = [kind |-> "done", src_lens |-> src_lens, trg_lens |-> trg_lens,
                   index_t |-> uniform_assignment(src_lens, trg_lens),
                   mapped_inputs |-> mapped_inputs(length_mask(src_lens),
                                                   length_mask(trg_lens))]
    /\ UNCHANGED <<pred_length_offset, decoder_out, op, inp, err, lp, fx, enc, dec, mp, future_mask, mk, run>>

NextUniform == UniformAssignment

SpecUniform == Init /\ [][NextUniform]_vars

\* C10: for Ls >= 2 and Lt >= 2 the indices given to target positions 0..Lt-1 are
\* non-decreasing, lie in [0, Ls-1], and map position 0 to 0 and Lt-1 to Ls-1.
C10_Monotone ==
    ua.kind = "done" =>
        \A r \in DOMAIN ua.index_t :
            (ua.src_lens[r] >= 2 /\ ua.trg_lens[r] >= 2) =>
                /\ \A j \in 0..(ua.trg_lens[r] - 1) :
                    /\ ua.index_t[r][j] \in 0..(ua.src_lens[r] - 1)
                    /\ j > 0 => ua.index_t[r][j - 1] <= ua.index_t[r][j]
                /\ ua.index_t[r][0] = 0
                /\ ua.index_t[r][ua.trg_lens[r] - 1] = ua.src_lens[r] - 1

\* A batch with a row that stretches 2 source positions over 3 target positions
\* (the middle one a tie, rounded to the even index 0) beside a longer row that
\* squeezes 5 source positions into 4.
C10_Witness ==
    /\ ua.kind = "done"
    /\ \E r, q \in DOMAIN ua.index_t :
        /\ ua.src_lens[r] = 2 /\ ua.trg_lens[r] = 3
        /\ ua.index_t[r][1] = 0 /\ ua.index_t[r][2] = 1
        /\ ua.src_lens[q] = 5 /\ ua.trg_lens[q] = 4
        /\ ua.index_t[q][1] = 1 /\ ua.index_t[q][2] = 3 /\ ua.index_t[q][3] = 4

\* The position j * (Ls - 1) / (Lt - 1) that row r's target position j stands for,
\* clamped into [0, Ls - 1] after rounding to the nearest integer (ties to even)
ClampedRound(r, j) ==
    LET v == RoundHalfEven(j * (ua.src_lens[r] - 1), ua.trg_lens[r] - 1)
    IN  IF v > ua.src_lens[r] - 1 THEN ua.src_lens[r] - 1 ELSE v

\* idx is an integer nearest to j * (Ls - 1) / (Lt - 1) for row r
NearestTo(idx, r, j) ==
    LET d == 2 * (idx * (ua.trg_lens[r] - 1) - j * (ua.src_lens[r] - 1))
    IN  d <= ua.trg_lens[r] - 1 /\ 0 - d <= ua.trg_lens[r] - 1

\* C11 as stated: at every position j in [0, max(Lt)) of every row, also of the
\* rows shorter than max(Lt), the returned index is round(j*(Ls-1)/(Lt-1))
\* clamped into [0, Ls-1].
C11_ClampedEverywhere ==
    ua.kind = "done" =>
        \A r \in DOMAIN ua.index_t :
            \A j \in DOMAIN ua.index_t[r] : ua.index_t[r][j] = ClampedRound(r, j)

\* C11 amended: _uniform_assignment clamps nothing.  At a row's own positions
\* j < Lt the index is an integer nearest to j*(Ls-1)/(Lt-1) and lies in
\* [0, Ls-1]; at the positions j >= Lt of a row shorter than max(Lt) it is the
\* same rounding, unclamped, so it is at least Ls-1 and can exceed it; only
\* forward_copying_source replaces the indices of those positions, by 0, and
\* leaves the others as returned.
C11_ClampedOnlyInOwnRow ==
    ua.kind = "done" =>
        \A r \in DOMAIN ua.index_t :
            \A j \in DOMAIN ua.index_t[r] :
                /\ NearestTo(ua.index_t[r][j], r, j)
                /\ IF j < ua.trg_lens[r]
                   THEN /\ ua.index_t[r][j] \in 0..(ua.src_lens[r] - 1)
                        /\ ua.mapped_inputs[r][j] = ua.index_t[r][j]
                   ELSE /\ ua.index_t[r][j] >= ua.src_lens[r] - 1
                        /\ ua.mapped_inputs[r][j] = 0

\* A row with Ls = 5 and Lt = 2 beside a row of 5 target positions: its indices
\* are 0, 4, 8, 12, 16, far beyond Ls - 1 = 4, and forward_copying_source turns
\* the last three into 0.
C11_Witness ==
    /\ ua.kind = "done"
    /\ \E r \in DOMAIN ua.index_t :
        /\ ua.src_lens[r] = 5 /\ ua.trg_lens[r] = 2
        /\ DOMAIN ua.index_t[r] = 0..4
        /\ ua.index_t[r][1] = 4 /\ ua.index_t[r][2] = 8 /\ ua.index_t[r][4] = 16
        /\ ua.mapped_inputs[r][1] = 4 /\ ua.mapped_inputs[r][2] = 0

----------------------------------------------------------------------------
(* The embedding stage of NATransformerDecoder.extract_features with           *)
(* embedding_copy set (lines 523-574); NATransformerSubDecoder (lines 957-981) *)
(* and NATransformerSubOddEvenDecoder seed with the same cat / index_select.   *)

\* The two B x T x C candidates, one vector per position.  A vector is named by
\* where it was computed: forward_embedding looks up the token of (row, pos),
\* the copy attention queries the source with the position embedding of (row, pos).
plain_embedding(prev_output_tokens) ==
    [b \in DOMAIN prev_output_tokens |->
        [t \in DOMAIN prev_output_tokens[b] |->
            [kind |-> "embed_tokens", row |-> b, pos |-> t,
             token |-> prev_output_tokens[b][t]]]]

copy_attention(prev_output_tokens) ==
    [b \in DOMAIN prev_output_tokens |->
        [t \in DOMAIN prev_output_tokens[b] |->
            [kind |-> "copy_attn", row |-> b, pos |-> t,
             token |-> prev_output_tokens[b][t]]]]

\* Tensor.eq(value) on a B x T tensor
eq(t, value) == [r \in DOMAIN t |-> [p \in DOMAIN t[r] |-> t[r][p] = value]]

\* torch.cat([a.unsqueeze(2), x.unsqueeze(2)], dim=2).view(-1, C): row (b*T+t)*2
\* holds a[b][t] and row (b*T+t)*2+1 holds x[b][t]
cat_view(a, x) ==
    LET T == Width(a)
    IN  [n \in 0..(NumRows(a) * T * 2 - 1) |->
            LET i == n \div 2
            IN  IF n % 2 = 0 THEN a[i \div T][i % T] ELSE x[i \div T][i % T]]

\* Mutant: the index is arange + output_mask, without the factor 2
seed_index_unscaled(output_mask) ==
    LET T == Width(output_mask)
    IN  [i \in 0..(NumRows(output_mask) * T - 1) |->
            i + (IF output_mask[i \div T][i % T] THEN 1 ELSE 0)]

\* torch.arange(bsz * seq_len) * 2 + output_mask.view(-1).long()
seed_index(output_mask) ==
    LET T == Width(output_mask)
    IN  [i \in 0..(NumRows(output_mask) * T - 1) |->
            i * 2 + (IF output_mask[i \div T][i % T] THEN 1 ELSE 0)]

\* Tensor.index_select(dim=0, index)
index_select0(t, index) == [i \in DOMAIN index |-> t[index[i]]]

\* Tensor.reshape(B, T, C) of a (B*T) x C tensor
reshape(flat, B, T) == [b \in 0..(B - 1) |-> [t \in 0..(T - 1) |-> flat[b * T + t]]]

\* lines 555-563
copy_seed(prev_output_tokens) ==
    LET mask_target_x == plain_embedding(prev_output_tokens)
        x == copy_attention(prev_output_tokens)
        output_mask == eq(prev_output_tokens, unk)
        cat_x == cat_view(mask_target_x, x)
    IN  reshape(index_select0(cat_x, seed_index(output_mask)),
                NumRows(prev_output_tokens), Width(prev_output_tokens))

\* lines 567-572: tmp_index = tmp_a - tmp_b - 1, negatives filled with
\* max(nonpad_num) - 1; its width is max(nonpad_num)
backward_index(nonpad_num) ==
    LET W == MaxOf({nonpad_num[r] : r \in DOMAIN nonpad_num})
    IN  [r \in DOMAIN nonpad_num |->
            [j \in 0..(W - 1) |-> IF nonpad_num[r] - j - 1 < 0 THEN W - 1
                                  ELSE nonpad_num[r] - j - 1]]

\* torch.gather(x, 1, index...): out[r][j] = x[r][index[r][j]]
gather1(x, index) == [r \in DOMAIN index |-> [j \in DOMAIN index[r] |-> x[r][index[r][j]]]]

\* lines 565-573
backward_reindex(x, prev_output_tokens) ==
    gather1(x, backward_index(sum1(ne(prev_output_tokens, pad))))

\* lines 523-574: seeding, then the reindexing when args.curriculum_type is
\* at_backward
embedding_stage(prev_output_tokens, curriculum_type) ==
    LET seeded == copy_seed(prev_output_tokens)
    IN  [seeded |-> seeded,
         x |-> IF curriculum_type = "at_backward"
               THEN backward_reindex(seeded, prev_output_tokens)
               ELSE seeded]

CurriculumTypes == {"nat", "at_backward"}

\* A row of width T: n tokens, each unk or a word, then padding
SeedRows(T) ==
    UNION {{[p \in 0..(T - 1) |-> IF p < n THEN c[p] ELSE pad] :
                c \in [0..(n - 1) -> {unk, "x"}]} : n \in 1..T}

\* One call of the embedding stage on a buffer of B rows and T columns
ExtractFeatures ==
    /\ fx.kind = "none"
    /\ \E B \in 1..MaxBatch, T \in 1..MaxSeedLen, curriculum_type \in CurriculumTypes :
         \E prev_output_tokens \in [0..(B - 1) -> SeedRows(T)] :
            LET res == embedding_stage(prev_output_tokens, curriculum_type)
            IN  fx' = [kind |-> "extract_features",
                       curriculum_type |-> curriculum_type,
                       prev_output_tokens |-> prev_output_tokens,
                       seeded |-> res.seeded, x |-> res.x]
    /\ UNCHANGED <<pred_length_offset, decoder_out, op, inp, err, lp, ua, enc, dec, mp, future_mask, mk, run>>

NextSeed == ExtractFeatures

SpecSeed == Init /\ [][NextSeed]_vars

\* C12: with copy-attention seeding, the content seeded at (row, position) is the
\* copy-attention result of that row and position when the buffer token there is
\* unk and the plain embedding lookup of that row and position otherwise; never
\* a vector of another position or row.
C12_SeedExclusive ==
    fx.kind = "extract_features" =>
        \A b \in DOMAIN fx.prev_output_tokens :
            \A t \in DOMAIN fx.prev_output_tokens[b] :
                /\ fx.seeded[b][t].row = b
                /\ fx.seeded[b][t].pos = t
                /\ fx.seeded[b][t].token = fx.prev_output_tokens[b][t]
                /\ fx.seeded[b][t].kind =
                       IF fx.prev_output_tokens[b][t] = unk THEN "copy_attn"
                       ELSE "embed_tokens"

\* A two-row buffer: row 0 is a word then unk, row 1 is unk then padding; each
\* position got its own row's vector of the right kind.
C12_Witness ==
    /\ fx.kind = "extract_features"
    /\ NumRows(fx.prev_output_tokens) = 2 /\ Width(fx.prev_output_tokens) = 2
    /\ fx.prev_output_tokens[0] = [p \in 0..1 |-> IF p = 0 THEN "x" ELSE unk]
    /\ fx.prev_output_tokens[1] = [p \in 0..1 |-> IF p = 0 THEN unk ELSE pad]
    /\ fx.seeded[0][0].kind = "embed_tokens" /\ fx.seeded[0][1].kind = "copy_attn"
    /\ fx.seeded[1][0].kind = "copy_attn" /\ fx.seeded[1][0].row = 1
    /\ fx.seeded[1][1].kind = "embed_tokens" /\ fx.seeded[1][1].token = pad

\* Number of non-pad tokens of row r of the buffer handed to the embedding stage
NonPad(r) ==
    Cardinality({p \in DOMAIN fx.prev_output_tokens[r] : fx.prev_output_tokens[r][p] # pad})

\* C20 as stated: under the backward curriculum, position j < n of a row with n
\* non-pad tokens is fed the seeded content of position n-1-j of that row,
\* reindexing twice restores the prefix, and the reindexed tensor is as wide as
\* the token buffer.
C20_ReversedSameWidth ==
    (fx.kind = "extract_features" /\ fx.curriculum_type = "at_backward") =>
        /\ \A r \in DOMAIN fx.x :
            \A j \in 0..(NonPad(r) - 1) :
                /\ fx.x[r][j] = fx.seeded[r][NonPad(r) - 1 - j]
                /\ backward_reindex(fx.x, fx.prev_output_tokens)[r][j] = fx.seeded[r][j]
        /\ Width(fx.x) = Width(fx.prev_output_tokens)

----------------------------------------------------------------------------
(* The encoder output: NATransformerEncoder.forward (lines 1425-1473),        *)
(* NATransformerCTCEncoder.forward (lines 1557-1599) and reorder_encoder_out  *)
(* (lines 1492-1549; lines 1618-1675 of the CTC encoder are the same code).   *)

\* A Python value stored under a key of the encoder_out dictionary: a list of
\* tensors, or a bare tensor.  A tensor carries its shape (the feature axis C
\* is left out) and its data, indexed from 0 along each axis.
PyList(items) == [type |-> "list", items |-> items]
PyTensor(shape, data) == [type |-> "tensor", shape |-> shape, data |-> data]

\* len(v): the number of items of a list, the size of axis 0 of a tensor
py_len(v) == IF v.type = "list" THEN Len(v.items) ELSE v.shape[1]

\* v[0]: the first item of a list, the first slice along axis 0 of a tensor
py_first(v) == IF v.type = "list" THEN v.items[1] ELSE PyTensor(Tail(v.shape), v.data[0])

\* Tensor.index_select(axis, new_order) for axis 0 and axis 1
index_select(t, axis, new_order) ==
    PyTensor([t.shape EXCEPT ![axis + 1] = Cardinality(DOMAIN new_order)],
             IF axis = 0 THEN [i \in DOMAIN new_order |-> t.data[new_order[i]]]
             ELSE [a \in DOMAIN t.data |->
                      [i \in DOMAIN new_order |-> t.data[a][new_order[i]]]])

\* index_select raises IndexError when the tensor has no such axis or an index
\* is outside it
index_in_range(t, axis, new_order) ==
    /\ axis + 1 <= Len(t.shape)
    /\ \A i \in DOMAIN new_order : new_order[i] \in 0..(t.shape[axis + 1] - 1)

\* The word at position t of source sentence b
Word(b, t) == "w" \o ToString(b) \o ToString(t)

\* A left-padded B x T batch whose row b holds lens[b] words
SrcTokens(B, T, lens) ==
    [b \in 0..(B - 1) |-> [t \in 0..(T - 1) |-> IF t < T - lens[b] THEN pad ELSE Word(b, t)]]

\* The T x B x C output of encoder layer k (k = 0: the embedded input); the
\* vector at (t, b) is named by the layer and by the token and place it encodes
LayerState(k, src_tokens) ==
    LET B == NumRows(src_tokens)
        T == Width(src_tokens)
    IN  PyTensor(<<T, B>>, [t \in 0..(T - 1) |-> [b \in 0..(B - 1) |->
            [kind |-> "state", layer |-> k, row |-> b, pos |-> t,
             token |-> src_tokens[b][t]]]])

\* A B x T x C per-token tensor (token embedding, position embedding)
PerToken(kind, src_tokens) ==
    PyTensor(<<NumRows(src_tokens), Width(src_tokens)>>,
             [b \in DOMAIN src_tokens |-> [t \in DOMAIN src_tokens[b] |->
                 [kind |-> kind, layer |-> 0, row |-> b, pos |-> t,
                  token |-> src_tokens[b][t]]]])

\* lines 1445-1456: the input and the output of every layer, if asked for
EncoderStates(src_tokens, return_all_hiddens) ==
    IF return_all_hiddens
    THEN [k \in 1..(EncoderLayers + 1) |-> LayerState(k - 1, src_tokens)]
    ELSE <<>>

\* A B x T tensor of tokens or of booleans
Matrix(t) == PyTensor(<<NumRows(t), Width(t)>>, t)

\* NATransformerEncoder.forward, lines 1432-1473: src_tokens is stored bare
encoder_forward(src_tokens, return_all_hiddens) ==
    LET encoder_padding_mask == eq(src_tokens, pad)
    IN  [encoder_out |-> PyList(<<LayerState(EncoderLayers, src_tokens)>>),
         encoder_padding_mask |-> PyList(<<Matrix(encoder_padding_mask)>>),
         encoder_embedding |-> PyList(<<PerToken("embedding", src_tokens)>>),
         encoder_pos |-> PyList(<<PerToken("position", src_tokens)>>),
         encoder_states |-> PyList(EncoderStates(src_tokens, return_all_hiddens)),
         src_tokens |-> Matrix(src_tokens),
         src_lengths |-> PyList(<<>>)]

\* NATransformerCTCEncoder.forward, lines 1566-1599: no encoder_embedding and no
\* encoder_pos key
ctc_encoder_forward(src_tokens, encoder_padding_mask, return_all_hiddens) ==
    [encoder_out |-> PyList(<<LayerState(EncoderLayers, src_tokens)>>),
     encoder_padding_mask |-> PyList(<<Matrix(encoder_padding_mask)>>),
     encoder_states |-> PyList(EncoderStates(src_tokens, return_all_hiddens)),
     src_tokens |-> PyList(<<>>),
     src_lengths |-> PyList(<<>>)]

\* The keys reorder_encoder_out reads, in the order it reads them
ReorderKeys ==
    <<"encoder_out", "encoder_padding_mask", "encoder_embedding", "encoder_pos",
      "src_tokens", "src_lengths">>

\* The axis reorder_encoder_out selects along, per key
ReorderAxis(key) == IF key = "encoder_out" THEN 1 ELSE 0

\* `[] if len(d[key]) == 0 else [d[key][0].index_select(axis, new_order)]`
reorder_field(encoder_out, key, new_order) ==
    IF py_len(encoder_out[key]) = 0 THEN PyList(<<>>)
    ELSE PyList(<<index_select(py_first(encoder_out[key]), ReorderAxis(key), new_order)>>)

\* What reading and selecting one key raises, if anything
reorder_field_raises(encoder_out, key, new_order) ==
    IF key \notin DOMAIN encoder_out THEN "KeyError"
    ELSE IF py_len(encoder_out[key]) = 0 THEN "none"
    ELSE IF ~index_in_range(py_first(encoder_out[key]), ReorderAxis(key), new_order)
         THEN "IndexError"
    ELSE "none"

\* lines 1536-1539: every entry of the encoder_states list is replaced in place
reorder_states(encoder_states, new_order) ==
    PyList([k \in DOMAIN encoder_states.items |->
                index_select(encoder_states.items[k], 1, new_order)])

\* reorder_encoder_out, lines 1492-1549.  Returns what was raised, the returned
\* dictionary, and the argument as the call leaves it (its encoder_states list
\* is the one the result holds).
reorder_encoder_out(encoder_out, new_order) ==
    LET failing == {i \in DOMAIN ReorderKeys :
                        reorder_field_raises(encoder_out, ReorderKeys[i], new_order) # "none"}
    IN  IF failing # {}
        THEN LET i == CHOOSE m \in failing : \A n \in failing : m <= n
             IN  [raised |-> reorder_field_raises(encoder_out, ReorderKeys[i], new_order),
                  at |-> ReorderKeys[i],
                  encoder_out |-> encoder_out]
        ELSE LET encoder_states == reorder_states(encoder_out["encoder_states"], new_order)
             IN  [raised |-> "none",
                  at |-> "none",
                  out |-> [encoder_out |-> reorder_field(encoder_out, "encoder_out", new_order),
                           encoder_padding_mask |->
                               reorder_field(encoder_out, "encoder_padding_mask", new_order),
                           encoder_embedding |->
                               reorder_field(encoder_out, "encoder_embedding", new_order),
                           encoder_pos |-> reorder_field(encoder_out, "encoder_pos", new_order),
                           encoder_states |-> encoder_states,
                           src_tokens |-> reorder_field(encoder_out, "src_tokens", new_order),
                           src_lengths |-> reorder_field(encoder_out, "src_lengths", new_order)],
                  encoder_out |-> [encoder_out EXCEPT !["encoder_states"] = encoder_states]]

\* The batches given to the encoders
SourceBatches ==
    UNION {{SrcTokens(B, T, lens) : lens \in [0..(B - 1) -> 1..T]} :
               B \in 1..MaxBatch, T \in 1..MaxSrc}

EncoderForward ==
    /\ enc.kind = "none"
    /\ \E src_tokens \in SourceBatches, return_all_hiddens \in BOOLEAN :
         enc' = [kind |-> "forward", class |-> "NATransformerEncoder",
                 encoder_out |-> encoder_forward(src_tokens, return_all_hiddens)]
    /\ UNCHANGED <<pred_length_offset, decoder_out, op, inp, err, lp, ua, fx, dec, mp, future_mask, mk, run>>

\* The CTC encoder is handed features of the same batches with their padding mask
CTCEncoderForward ==
    /\ enc.kind = "none"
    /\ \E src_tokens \in SourceBatches, return_all_hiddens \in BOOLEAN :
         enc' = [kind |-> "forward", class |-> "NATransformerCTCEncoder",
                 encoder_out |-> ctc_encoder_forward(src_tokens, eq(src_tokens, pad),
                                                     return_all_hiddens)]
    /\ UNCHANGED <<pred_length_offset, decoder_out, op, inp, err, lp, ua, fx, dec, mp, future_mask, mk, run>>

\* new_order: a permutation of the batch rows, a selection of them, or a
\* repetition (beam expansion)
NewOrders(B) == UNION {[0..(n - 1) -> 0..(B - 1)] : n \in 1..MaxBatch}

ReorderEncoderOut ==
    /\ enc.kind = "forward"
    /\ \E new_order \in NewOrders(py_first(enc.encoder_out["encoder_padding_mask"]).shape[1]) :
         LET res == reorder_encoder_out(enc.encoder_out, new_order)
         IN  enc' = [kind |-> "reorder", class |-> enc.class,
                     before |-> enc.encoder_out, new_order |-> new_order,
                     raised |-> res.raised, at |-> res.at,
                     out |-> IF res.raised = "none" THEN Some(res.out) ELSE None,
                     encoder_out |-> res.encoder_out]
    /\ UNCHANGED <<pred_length_offset, decoder_out, op, inp, err, lp, ua, fx, dec, mp, future_mask, mk, run>>

NextEncoder == EncoderForward \/ CTCEncoderForward \/ ReorderEncoderOut

SpecEncoder == Init /\ [][NextEncoder]_vars

\* new_order is a permutation of the B batch rows
IsPermutation(new_order, B) ==
    /\ DOMAIN new_order = 0..(B - 1)
    /\ \A b \in 0..(B - 1) : \E i \in DOMAIN new_order : new_order[i] = b

\* Tensor o is tensor t index-selected along its batch axis: same shape but for
\* the batch axis, and batch row i of o is batch row new_order[i] of t
BatchSelected(o, t, axis, new_order) ==
    /\ o.shape = [t.shape EXCEPT ![axis + 1] = Cardinality(DOMAIN new_order)]
    /\ IF axis = 0
       THEN \A i \in DOMAIN new_order : o.data[i] = t.data[new_order[i]]
       ELSE \A a \in DOMAIN t.data :
               \A i \in DOMAIN new_order : o.data[a][i] = t.data[a][new_order[i]]

\* The list fields of NATransformerEncoder.forward's output, but encoder_states
ListFields == {"encoder_out", "encoder_padding_mask", "encoder_embedding", "encoder_pos"}

\* Every list field of the reordered output is the input's, batch-selected
ListFieldsSelected ==
    \A key \in ListFields :
        /\ py_len(enc.out.val[key]) = 1
        /\ BatchSelected(enc.out.val[key].items[1], enc.before[key].items[1],
                         ReorderAxis(key), enc.new_order)

\* Every entry of encoder_states is the input's, batch-selected
StatesSelected ==
    /\ py_len(enc.out.val["encoder_states"]) = py_len(enc.before["encoder_states"])
    /\ \A k \in DOMAIN enc.before["encoder_states"].items :
        BatchSelected(enc.out.val["encoder_states"].items[k],
                      enc.before["encoder_states"].items[k], 1, enc.new_order)

\* C13 as stated: reordering the output of NATransformerEncoder.forward by a batch
\* permutation p returns an output whose every present field (hidden, padding
\* mask, token embedding, position embedding, source tokens, every layer state)
\* has batch row i equal to batch row p[i] of the input field.
C13_EveryFieldReordered ==
    (/\ enc.kind = "reorder"
     /\ enc.class = "NATransformerEncoder"
     /\ IsPermutation(enc.new_order, enc.before["src_tokens"].shape[1])) =>
        /\ enc.raised = "none"
        /\ ListFieldsSelected
        /\ StatesSelected
        /\ py_len(enc.out.val["src_tokens"]) = 1
        /\ BatchSelected(enc.out.val["src_tokens"].items[1], enc.before["src_tokens"],
                         0, enc.new_order)

\* C14 as stated: reorder_encoder_out applied to the output of
\* NATransformerCTCEncoder.forward raises nothing and returns a reordered output.
C14_ToleratesAbsentFields ==
    (enc.kind = "reorder" /\ enc.class = "NATransformerCTCEncoder") =>
        /\ enc.raised = "none"
        /\ enc.out.some

----------------------------------------------------------------------------
(* A decode with history recording: forward_decoder, lines 149-159 *)

\* Predictions that are the same at every position of a row
RowConstantOutputs(t) ==
    {[r \in DOMAIN t |-> [p \in 0..(Width(t) - 1) |-> c[r % 2]]] :
         c \in [0..1 -> DecoderChoices]}

\* The caller of the decode turns recording on by giving the DecoderOut an empty
\* history list before the first step
RetainHistory ==
    /\ op = "initialize"
    /\ ~err
    /\ decoder_out' = [decoder_out EXCEPT !.history = Some(<<>>)]
    /\ op' = "retain_history"
    /\ inp' = [kind |-> "retain_history"]
    /\ UNCHANGED <<pred_length_offset, err, lp, ua, fx, enc, dec, mp, future_mask, mk, run>>

\* One refinement step of a decode that may be recording
RefinementStep ==
    /\ op # "none"
    /\ ~err
    /\ decoder_out.history.some => Len(decoder_out.history.val) < MaxHistory
    /\ \E out \in RowConstantOutputs(decoder_out.output_tokens) :
            LET argmax_tokens == [r \in DOMAIN out |-> [p \in DOMAIN out[r] |-> out[r][p][1]]]
                argmax_scores == [r \in DOMAIN out |-> [p \in DOMAIN out[r] |-> out[r][p][2]]]
            IN  /\ decoder_out' = forward_decoder(decoder_out, argmax_tokens, argmax_scores)
                /\ inp' = [kind |-> "forward_decoder", argmax_tokens |-> argmax_tokens,
                           argmax_scores |-> argmax_scores]
    /\ op' = "forward_decoder"
    /\ UNCHANGED <<pred_length_offset, err, lp, ua, fx, enc, dec, mp, future_mask, mk, run>>

NextHistory == Initialize \/ RetainHistory \/ RefinementStep

SpecHistory == Init /\ [][NextHistory]_vars

\* What entry e of a history list shows when read while the buffer is d's
Shown(e, d) == IF e.alias THEN d.output_tokens ELSE e.val

\* C15: with history enabled, a refinement step appends exactly one entry, that
\* entry shows the token buffer as the step left it, and every earlier entry
\* still shows what it showed before the step; with history None, it stays None.
C15_SnapshotPerStep ==
    [][op' = "forward_decoder" =>
          IF decoder_out.history.some
          THEN /\ decoder_out'.history.some
               /\ Len(decoder_out'.history.val) = Len(decoder_out.history.val) + 1
               /\ Shown(decoder_out'.history.val[Len(decoder_out'.history.val)],
                        decoder_out') = decoder_out'.output_tokens
               /\ ~decoder_out'.history.val[Len(decoder_out'.history.val)].alias
               /\ \A i \in 1..Len(decoder_out.history.val) :
                      Shown(decoder_out'.history.val[i], decoder_out')
                          = Shown(decoder_out.history.val[i], decoder_out)
          ELSE ~decoder_out'.history.some]_vars

\* Two recorded steps that changed the buffer: the first entry shows the buffer
\* after step 1, which differs from the second entry and from the buffer now.
C15_Witness ==
    /\ op = "forward_decoder"
    /\ decoder_out.history.some
    /\ Len(decoder_out.history.val) = 2
    /\ Shown(decoder_out.history.val[2], decoder_out) = decoder_out.output_tokens
    /\ Shown(decoder_out.history.val[1], decoder_out) # decoder_out.output_tokens
    /\ \E r \in DOMAIN decoder_out.output_tokens :
        /\ decoder_out.history.val[1].val[r][0] = "x"
        /\ decoder_out.output_tokens[r][0] = "y"

----------------------------------------------------------------------------
(* Construction of a split decoder: NATransformerSubDecoder.__init__ (lines   *)
(* 873-905) and NATransformerSubOddEvenDecoder.__init__ (lines 1123-1155)     *)

\* len([... for _ in range(n)]): range of a negative number is empty
range_len(n) == IF n < 0 THEN 0 ELSE n

\* lines 887-905: no statement of the constructor compares the two counts or
\* raises
build_split_decoder(class, decoder_layers, sub_layers_num, src_embedding_copy) ==
    [kind |-> "built", class |-> class,
     decoder_layers |-> decoder_layers, sub_layers_num |-> sub_layers_num,
     raised |-> FALSE,
     copy_attn |-> src_embedding_copy,
     sub_layers |-> range_len(sub_layers_num),
     other_layers |-> range_len(decoder_layers - sub_layers_num),
     layers |-> None]

SplitDecoders == {"NATransformerSubDecoder", "NATransformerSubOddEvenDecoder"}

BuildSplitDecoder ==
    /\ dec.kind = "none"
    /\ \E class \in SplitDecoders, decoder_layers \in 0..MaxLayers,
          sub_layers_num \in 0..MaxLayers, src_embedding_copy \in BOOLEAN :
         dec' = build_split_decoder(class, decoder_layers, sub_layers_num, src_embedding_copy)
    /\ UNCHANGED <<pred_length_offset, decoder_out, op, inp, err, lp, ua, fx, enc, mp, future_mask, mk, run>>

NextBuild == BuildSplitDecoder

SpecBuild == Init /\ [][NextBuild]_vars

\* C16 as stated: constructing a split decoder whose sub-stack layer count exceeds
\* the total decoder layer count fails with an error and produces no decoder.
C16_OversizedSubStackRejected ==
    (dec.kind = "built" /\ dec.sub_layers_num > dec.decoder_layers) => dec.raised

----------------------------------------------------------------------------
(* The inference path of forward_length_prediction, and the source length *)

\* The number of non-pad tokens of row r of a token buffer
LiveTokens(tokens, r) == Cardinality({p \in DOMAIN tokens[r] : tokens[r][p] # pad})

\* C17: without ground truth, forward_length_prediction returns exactly the
\* arg-max class c in absolute mode and exactly c - 128 + Ls in offset mode, with
\* no clamp: the value can be below 2, negative or above 255; the buffer built
\* from it is the first place where it is raised to 2.
C17_InferenceUnclamped ==
    lp.kind = "argmax" =>
        /\ \A r \in DOMAIN lp.length_tgt :
               lp.length_tgt[r] =
                   IF pred_length_offset
                   THEN lp.pred_lengs[r] - 128 + SourceLen(lp.encoder_out, r)
                   ELSE lp.pred_lengs[r]
        /\ LET built == initial_output_tokens_of(lp.encoder_out.B, lp.length_tgt)
           IN  /\ ~built.raised
               /\ \A r \in DOMAIN lp.length_tgt :
                      LiveTokens(built.tokens, r) =
                          IF lp.length_tgt[r] < 2 THEN 2 ELSE lp.length_tgt[r]

\* Offset mode, no ground truth: class 0 on a one-token source returned -127 and
\* class 255 on a 300-token source returned 427, both outside the classes.
C17_Witness ==
    /\ pred_length_offset
    /\ lp.kind = "argmax"
    /\ \E r, q \in DOMAIN lp.length_tgt :
        /\ lp.pred_lengs[r] = 0 /\ SourceLen(lp.encoder_out, r) = 1
        /\ lp.length_tgt[r] = 0 - 127
        /\ lp.pred_lengs[q] = 255 /\ SourceLen(lp.encoder_out, q) = LongLen
        /\ lp.length_tgt[q] = LongLen + 127

\* C18: in offset mode, without a padding mask the source length of every row is
\* the length of the sequence axis of the hidden states and nothing is raised;
\* with a mask it is the row's number of non-pad source positions.
C18_SourceLength ==
    (pred_length_offset /\ lp.kind = "argmax") =>
        \A r \in DOMAIN lp.length_tgt :
            lp.length_tgt[r] - lp.pred_lengs[r] + 128 =
                IF Len(lp.encoder_out.encoder_padding_mask) = 0
                THEN lp.encoder_out.T
                ELSE Cardinality({p \in 0..(lp.encoder_out.T - 1) :
                                     ~lp.encoder_out.encoder_padding_mask[1][r][p]})

\* The same class on two rows of a maskless encoder output gave both rows the
\* full axis length as source length.
C18_Witness ==
    /\ pred_length_offset
    /\ lp.kind = "argmax"
    /\ lp.encoder_out.encoder_padding_mask = <<>>
    /\ lp.encoder_out.T = LongLen
    /\ NumRows(lp.length_tgt) = 2
    /\ \A r \in DOMAIN lp.length_tgt :
        lp.pred_lengs[r] = 128 /\ lp.length_tgt[r] = LongLen

----------------------------------------------------------------------------
(* _mean_pooling (lines 20-30), as forward_length calls it (lines 454-459), in *)
(* exact arithmetic: a number is a fraction num / den in lowest terms          *)

RECURSIVE GCD(_, _)
GCD(a, b) == IF b = 0 THEN a ELSE GCD(b, a % b)

Abs(a) == IF a < 0 THEN 0 - a ELSE a

\* num / den in lowest terms, den > 0
Rat(num, den) ==
    LET g == GCD(Abs(num), den)
    IN  [num |-> num \div g, den |-> den \div g]

RatAdd(x, y) == Rat(x.num * y.den + y.num * x.den, x.den * y.den)

RatMul(x, y) == Rat(x.num * y.num, x.den * y.den)

\* x / n for a whole number n > 0
RatDivInt(x, n) == Rat(x.num, x.den * n)

\* Tensor.sum(0) of a T x B tensor of fractions: per column b, the terms added
\* from t = 0 up
RECURSIVE SumTo(_, _, _)
SumTo(x, b, n) == IF n = 0 THEN Rat(0, 1) ELSE RatAdd(SumTo(x, b, n - 1), x[n - 1][b])

sum0(x, T, B) == [b \in 0..(B - 1) |-> SumTo(x, b, T)]

\* (~src_masks).transpose(0, 1).type_as(enc_feats): 1.0 at the tokens, 0.0 at
\* the padding, T x B
token_mask(src_masks, T, B) ==
    [t \in 0..(T - 1) |-> [b \in 0..(B - 1) |-> IF src_masks[b][t] THEN 0 ELSE 1]]

\* Mutant: the sum over all positions is divided by the number of tokens
mean_pooling_unmasked(enc_feats, src_masks, T, B) ==
    IF ~src_masks.some
    THEN [b \in 0..(B - 1) |-> RatDivInt(SumTo(enc_feats, b, T), T)]
    ELSE LET m == token_mask(src_masks.val, T, B)
             count == [b \in 0..(B - 1) |-> Cardinality({t \in 0..(T - 1) : m[t][b] = 1})]
         IN  sum0([t \in 0..(T - 1) |-> [b \in 0..(B - 1) |->
                      RatDivInt(enc_feats[t][b], count[b])]], T, B)

\* lines 23-30; enc_feats is T x B (one feature), src_masks is B x T or None
mean_pooling(enc_feats, src_masks, T, B) ==
    IF ~src_masks.some
    THEN [b \in 0..(B - 1) |-> RatDivInt(SumTo(enc_feats, b, T), T)]
    ELSE LET m == token_mask(src_masks.val, T, B)
             count == [b \in 0..(B - 1) |-> Cardinality({t \in 0..(T - 1) : m[t][b] = 1})]
         IN  sum0([t \in 0..(T - 1) |-> [b \in 0..(B - 1) |->
                      RatMul(RatDivInt(enc_feats[t][b], count[b]), Rat(m[t][b], 1))]], T, B)

\* The values a hidden feature takes
FeatureValues == {Rat(0 - 1, 1), Rat(2, 1)}

\* The padding masks of B sentences of up to T tokens, none of them empty
PoolingMasks(T, B) ==
    {m \in [0..(B - 1) -> [0..(T - 1) -> BOOLEAN]] :
        \A b \in 0..(B - 1) : \E t \in 0..(T - 1) : ~m[b][t]}

MeanPooling ==
    /\ mp.kind = "none"
    /\ \E T \in 1..MaxSrc, B \in 1..MaxBatch :
         \E enc_feats \in [0..(T - 1) -> [0..(B - 1) -> FeatureValues]],
            src_masks \in {None} \cup {Some(m) : m \in PoolingMasks(T, B)} :
            mp' = [kind |-> "mean_pooling", T |-> T, B |-> B, enc_feats |-> enc_feats,
                   src_masks |-> src_masks,
                   pooled |-> mean_pooling(enc_feats, src_masks, T, B)]
    /\ UNCHANGED <<pred_length_offset, decoder_out, op, inp, err, lp, ua, fx, enc, dec, future_mask, mk, run>>

NextPooling == MeanPooling

SpecPooling == Init /\ [][NextPooling]_vars

\* The non-pad positions of sentence b of the pooled batch
PooledPositions(b) ==
    IF mp.src_masks.some THEN {t \in 0..(mp.T - 1) : ~mp.src_masks.val[b][t]}
    ELSE 0..(mp.T - 1)

\* The whole-number sum of the features of sentence b over the positions in S
RECURSIVE FeatureSum(_, _)
FeatureSum(b, S) ==
    IF S = {} THEN 0
    ELSE LET t == CHOOSE u \in S : TRUE
         IN  mp.enc_feats[t][b].num + FeatureSum(b, S \ {t})

\* C19: the pooled feature of a sentence with a token is the sum of its hidden
\* features over the non-pad positions divided by their number, whatever the
\* features at the padding are; without a mask it is the mean over all positions.
C19_MeanOverTokens ==
    mp.kind = "mean_pooling" =>
        \A b \in 0..(mp.B - 1) :
            /\ PooledPositions(b) # {}
            /\ mp.pooled[b].den > 0
            /\ mp.pooled[b].num * Cardinality(PooledPositions(b))
                   = FeatureSum(b, PooledPositions(b)) * mp.pooled[b].den

\* A sentence of one token (feature 2) before a padded position holding -1, in
\* a batch with a full sentence: pooled to 2 and to 1/2.
C19_Witness ==
    /\ mp.kind = "mean_pooling"
    /\ mp.src_masks.some
    /\ mp.T = 2 /\ mp.B = 2
    /\ mp.src_masks.val[0][0] = FALSE /\ mp.src_masks.val[0][1] = TRUE
    /\ mp.enc_feats[0][0] = Rat(2, 1) /\ mp.enc_feats[1][0] = Rat(0 - 1, 1)
    /\ mp.pooled[0] = Rat(2, 1)
    /\ \A t \in 0..1 : ~mp.src_masks.val[1][t]
    /\ mp.enc_feats[0][1] = Rat(2, 1) /\ mp.enc_feats[1][1] = Rat(0 - 1, 1)
    /\ mp.pooled[1] = Rat(1, 2)

----------------------------------------------------------------------------
(* The cached self-attention masks: buffered_future_mask (lines 465-477) and  *)
(* buffered_before_mask (lines 479-491), and their use in the layer loop of   *)
(* NATransformerDecoder.extract_features (lines 586-614)                      *)

NegInf == "-inf"
Zero == "0"

Devices == {"cpu", "cuda"}

\* Mutant: the diagonal is masked too (diagonal offset 0)
triu0(dim) ==
    [i \in 0..(dim - 1) |-> [j \in 0..(dim - 1) |-> IF j - i >= 0 THEN NegInf ELSE Zero]]

\* torch.triu(fill_with_neg_inf(zeros(dim, dim)), 1): the entries with
\* column - row >= 1 are kept, the others are 0
triu1(dim) ==
    [i \in 0..(dim - 1) |-> [j \in 0..(dim - 1) |-> IF j - i >= 1 THEN NegInf ELSE Zero]]

\* torch.tril(fill_with_neg_inf(zeros(dim, dim)), 1): the entries with
\* column - row <= 1 are kept, the others are 0
tril1(dim) ==
    [i \in 0..(dim - 1) |-> [j \in 0..(dim - 1) |-> IF j - i <= 1 THEN NegInf ELSE Zero]]

\* m[:dim, :dim]
slice(m, dim) ==
    LET n == IF Cardinality(DOMAIN m) < dim THEN Cardinality(DOMAIN m) ELSE dim
    IN  [i \in 0..(n - 1) |-> [j \in 0..(n - 1) |-> m[i][j]]]

\* Mutant: the cache is rebuilt only when it is empty
must_rebuild_if_empty(cache, dim, device) == cache.size = 0

\* lines 468-472 and 482-486: the cache is rebuilt when it is empty, on another
\* device, or too small
must_rebuild(cache, dim, device) ==
    cache.size = 0 \/ cache.device # device \/ cache.size < dim

\* The body both functions share: rebuild into self._future_mask if needed, move
\* it to the tensor's device, return the leading dim x dim block.  fresh is the
\* matrix a rebuild stores.
buffered_mask(cache, fresh, dim, device) ==
    LET kept == IF must_rebuild(cache, dim, device)
                THEN [size |-> dim, device |-> "cpu", m |-> fresh]
                ELSE cache
        moved == [kept EXCEPT !.device = device]
    IN  [cache |-> moved, result |-> slice(moved.m, dim)]

\* lines 465-477
buffered_future_mask(cache, dim, device) == buffered_mask(cache, triu1(dim), dim, device)

\* lines 479-491
buffered_before_mask(cache, dim, device) == buffered_mask(cache, tril1(dim), dim, device)

BufferedFutureMask ==
    /\ \E dim \in 1..MaxMaskDim, device \in Devices :
         LET res == buffered_future_mask(future_mask, dim, device)
         IN  /\ future_mask' = res.cache
             /\ mk' = [kind |-> "buffered_future_mask", dim |-> dim, device |-> device,
                       before |-> future_mask, result |-> res.result]
    /\ UNCHANGED <<pred_length_offset, decoder_out, op, inp, err, lp, ua, fx, enc, dec, mp, run>>

BufferedBeforeMask ==
    /\ \E dim \in 1..MaxMaskDim, device \in Devices :
         LET res == buffered_before_mask(future_mask, dim, device)
         IN  /\ future_mask' = res.cache
             /\ mk' = [kind |-> "buffered_before_mask", dim |-> dim, device |-> device,
                       before |-> future_mask, result |-> res.result]
    /\ UNCHANGED <<pred_length_offset, decoder_out, op, inp, err, lp, ua, fx, enc, dec, mp, run>>

NextMask == BufferedFutureMask \/ BufferedBeforeMask

SpecMask == Init /\ [][NextMask]_vars

\* The strictly causal mask: minus infinity exactly where the key index is
\* above the query index
Causal(n) ==
    [i \in 0..(n - 1) |-> [j \in 0..(n - 1) |-> IF j > i THEN NegInf ELSE Zero]]

\* C22 as stated: whatever calls of buffered_future_mask and
\* buffered_before_mask came before, buffered_future_mask(n) returns the n x n
\* matrix with minus infinity exactly where column > row.
C22_PureFutureMask ==
    mk.kind = "buffered_future_mask" => mk.result = Causal(mk.dim)

\* C23 as stated: on a decoder with an empty mask cache buffered_before_mask(n)
\* returns minus infinity exactly where key j < query i, so every query can
\* attend to itself and no row is fully masked.
C23_StrictlyAntiCausal ==
    (mk.kind = "buffered_before_mask" /\ mk.before.size = 0) =>
        /\ \A i, j \in 0..(mk.dim - 1) :
               mk.result[i][j] = IF j < i THEN NegInf ELSE Zero
        /\ \A i \in 0..(mk.dim - 1) : \E j \in 0..(mk.dim - 1) : mk.result[i][j] = Zero

----------------------------------------------------------------------------
(* The layer loop of NATransformerDecoder.extract_features, lines 586-614 *)

\* args.curriculum_type: not set, or one of the curricula
CurriculumConfigs == {"absent", "nat", "at_forward", "at_backward"}

\* lines 596-599: the mask one layer is given, and the cache after asking for it
self_attn_mask_of(cache, curriculum_type, T, device) ==
    IF curriculum_type # "absent" /\ curriculum_type # "nat"
    THEN LET res == buffered_future_mask(cache, T, device)
         IN  [cache |-> res.cache, mask |-> Some(res.result)]
    ELSE [cache |-> cache, mask |-> None]

\* The layers the loop runs: all of them, or those before early_exit
layers_run(n, early_exit) ==
    IF early_exit.some /\ early_exit.val < n THEN early_exit.val ELSE n

\* lines 586-612: the masks given to the first n layers, in order, and the
\* cache the loop leaves
RECURSIVE layer_loop(_, _, _, _, _)
layer_loop(cache, curriculum_type, T, device, n) ==
    IF n = 0 THEN [cache |-> cache, masks |-> <<>>]
    ELSE LET sofar == layer_loop(cache, curriculum_type, T, device, n - 1)
             this == self_attn_mask_of(sofar.cache, curriculum_type, T, device)
         IN  [cache |-> this.cache, masks |-> Append(sofar.masks, this.mask)]

\* One forward pass of the decoder over a buffer of T positions.  The first
\* pass fixes the configuration; every later pass runs under the same one.
DecoderPass ==
    /\ mk.kind \in {"none", "pass"}
    /\ \E curriculum_type \in CurriculumConfigs, T \in 1..MaxMaskDim, device \in Devices,
          early_exit \in {None} \cup {Some(e) : e \in 0..PassLayers} :
         /\ mk.kind = "pass" => curriculum_type = mk.curriculum_type
         /\ LET res == layer_loop(future_mask, curriculum_type, T, device,
                                  layers_run(PassLayers, early_exit))
            IN  /\ future_mask' = res.cache
                /\ mk' = [kind |-> "pass", curriculum_type |-> curriculum_type, T |-> T,
                          device |-> device, early_exit |-> early_exit,
                          masks |-> res.masks]
    /\ UNCHANGED <<pred_length_offset, decoder_out, op, inp, err, lp, ua, fx, enc, dec, mp, run>>

NextPass == DecoderPass

SpecPass == Init /\ [][NextPass]_vars

\* C21: in one forward pass every layer is given the same self-attention mask,
\* fixed by the configuration at every pass: none when curriculum_type is absent
\* or 'nat', otherwise the strictly causal mask of the buffer's length.
C21_OneMaskPerPass ==
    mk.kind = "pass" =>
        \A l \in DOMAIN mk.masks :
            IF mk.curriculum_type \in {"absent", "nat"}
            THEN ~mk.masks[l].some
            ELSE /\ mk.masks[l].some
                 /\ mk.masks[l].val = Causal(mk.T)

\* A pass over 2 positions on a decoder whose cache holds the mask of an earlier
\* pass over 3: both layers got the 2 x 2 causal mask, cut out of the cache.
C21_Witness ==
    /\ mk.kind = "pass"
    /\ mk.curriculum_type = "at_forward"
    /\ future_mask.size = 3 /\ mk.T = 2
    /\ Len(mk.masks) = PassLayers
    /\ \A l \in DOMAIN mk.masks :
        /\ mk.masks[l].val[0][1] = NegInf
        /\ mk.masks[l].val[1][1] = Zero /\ mk.masks[l].val[1][0] = Zero

----------------------------------------------------------------------------
(* One forward pass of a split decoder: NATransformerSubDecoder.extract_features *)
(* (lines 984-1043) and NATransformerSubOddEvenDecoder.extract_features (lines   *)
(* 1244-1345).  A hidden state is the sequence of what was applied to build it.  *)

Embedded == [op |-> "embedding", stack |-> "-", i |-> 0]
AddPositions == [op |-> "add_positions", stack |-> "-", i |-> 0]
LayerNorm == [op |-> "layer_norm", stack |-> "-", i |-> 0]
Layer(stack, i) == [op |-> "layer", stack |-> stack, i |-> i]

\* Both loops: x += positions, x = layer(x, ...), for the first n layers of a stack
RECURSIVE run_stack(_, _, _)
run_stack(x, stack, n) ==
    IF n = 0 THEN x
    ELSE Append(Append(run_stack(x, stack, n - 1), AddPositions), Layer(stack, n - 1))

\* lines 1296-1310: the mask built for a mode, for seq_len positions.  Mode 1
\* masks the even keys for every query; mode 2 masks the odd keys for the odd
\* queries.
parity_mask(attn_mask_mode, seq_len) ==
    IF attn_mask_mode = Some(1)
    THEN Some([i \in 0..(seq_len - 1) |-> [j \in 0..(seq_len - 1) |->
                  IF j % 2 = 0 THEN NegInf ELSE Zero]])
    ELSE IF attn_mask_mode = Some(2)
    THEN Some([i \in 0..(seq_len - 1) |-> [j \in 0..(seq_len - 1) |->
                  IF i % 2 = 1 /\ j % 2 = 1 THEN NegInf ELSE Zero]])
    ELSE None

\* lines 1295-1312: the field is set to None, then the mask is built from it
odd_even_mask(attn_mask_mode, seq_len) ==
    LET self_attn_mask_mode == None
    IN  parity_mask(self_attn_mask_mode, seq_len)

\* The mask an other-stack layer is given: NATransformerSubDecoder passes None
\* (line 1039)
other_layer_mask(class, attn_mask_mode, seq_len) ==
    IF class = "NATransformerSubOddEvenDecoder"
    THEN odd_even_mask(attn_mask_mode, seq_len)
    ELSE None

\* The forward pass of decoder d over seq_len positions; attn_mask_mode is the
\* value of the instance field when the pass starts.
split_forward(d, seq_len, early_exit, attn_mask_mode, layer_norm) ==
    LET sub_run == layers_run(d.sub_layers, early_exit)
        other_run == layers_run(d.other_layers, early_exit)
        after_sub == run_stack(<<Embedded>>, "sub_layers", sub_run)
        sub_state == clone(after_sub)
        x == run_stack(after_sub, "other_layers", other_run)
        \* the first `x += positions` of the second loop writes into the tensor
        \* sub_state was taken from
        sub_shown == IF sub_state.alias /\ other_run > 0
                     THEN Append(sub_state.val, AddPositions)
                     ELSE sub_state.val
    IN  [sub_state |-> IF layer_norm THEN Append(sub_shown, LayerNorm) ELSE sub_shown,
         x |-> IF layer_norm THEN Append(x, LayerNorm) ELSE x,
         masks |-> [l \in 1..other_run |-> other_layer_mask(d.class, attn_mask_mode, seq_len)],
         attn_mask_mode |-> IF d.class = "NATransformerSubOddEvenDecoder" /\ other_run > 0
                            THEN None ELSE attn_mask_mode]

SplitForward ==
    /\ dec.kind = "built"
    /\ \E seq_len \in 1..MaxMaskDim,
          early_exit \in {None} \cup {Some(e) : e \in 0..1},
          attn_mask_mode \in {None, Some(1), Some(2)}, layer_norm \in BOOLEAN :
         LET res == split_forward(dec, seq_len, early_exit, attn_mask_mode, layer_norm)
         IN  dec' = [kind |-> "forward", class |-> dec.class,
                     decoder_layers |-> dec.decoder_layers,
                     sub_layers_num |-> dec.sub_layers_num,
                     seq_len |-> seq_len, early_exit |-> early_exit,
                     selected |-> attn_mask_mode, layer_norm |-> layer_norm,
                     sub_state |-> res.sub_state, x |-> res.x, masks |-> res.masks,
                     attn_mask_mode |-> res.attn_mask_mode]
    /\ UNCHANGED <<pred_length_offset, decoder_out, op, inp, err, lp, ua, fx, enc, mp,
                   future_mask, mk, run>>

NextSplit == BuildSplitDecoder \/ SplitForward

SpecSplit == Init /\ [][NextSplit]_vars

\* The parity mask the claim describes: variant 1 forbids the even keys to every
\* query, variant 2 forbids the even keys to the odd queries
ClaimedParity(variant, n) ==
    [i \in 0..(n - 1) |-> [j \in 0..(n - 1) |->
        IF j % 2 = 0 /\ (variant = 1 \/ i % 2 = 1) THEN NegInf ELSE Zero]]

\* C24 as stated: with the parity mode selected, every layer of the second
\* sub-stack of NATransformerSubOddEvenDecoder is given the parity mask of the
\* selected variant.
C24_ParityMaskApplied ==
    (/\ dec.kind = "forward"
     /\ dec.class = "NATransformerSubOddEvenDecoder"
     /\ dec.selected.some) =>
        \A l \in DOMAIN dec.masks :
            /\ dec.masks[l].some
            /\ dec.masks[l].val = ClaimedParity(dec.selected.val, dec.seq_len)

\* The layers of a hidden state, in the order they were applied
IsLayer(e) == e.op = "layer"
LayersOf(x) == SelectSeq(x, IsLayer)

\* The layers 0 .. n-1 of a stack, in order
StackLayers(stack, n) == [l \in 1..n |-> Layer(stack, l - 1)]

\* A hidden state without the closing layer norm
Unnormed(x) == IF x[Len(x)].op = "layer_norm" THEN SubSeq(x, 1, Len(x) - 1) ELSE x

----------------------------------------------------------------------------
\* C26 as stated: reorder_encoder_out leaves every field of its argument as it
\* was, the encoder_states list included (initialize_output_tokens and
\* forward_decoder never assign to the encoder output).
C26_EncoderOutReadOnly ==
    enc.kind = "reorder" => enc.encoder_out = enc.before

----------------------------------------------------------------------------
(* Length-beam expansion in the middle of a decode *)

MaxStep == 2

\* The caller's loop body: one refinement step, after which the caller advances
\* the step counter it owns (max_step is the budget it set)
CountedStep ==
    /\ op # "none"
    /\ ~err
    /\ decoder_out.step < MaxStep
    /\ \E out \in RowConstantOutputs(decoder_out.output_tokens) :
            LET argmax_tokens == [r \in DOMAIN out |-> [p \in DOMAIN out[r] |-> out[r][p][1]]]
                argmax_scores == [r \in DOMAIN out |-> [p \in DOMAIN out[r] |-> out[r][p][2]]]
                stepped == forward_decoder(decoder_out, argmax_tokens, argmax_scores)
            IN  /\ decoder_out' = [stepped EXCEPT !.step = @ + 1, !.max_step = MaxStep + 1]
                /\ inp' = [kind |-> "forward_decoder", argmax_tokens |-> argmax_tokens,
                           argmax_scores |-> argmax_scores]
    /\ op' = "counted_step"
    /\ UNCHANGED <<pred_length_offset, err, lp, ua, fx, enc, dec, mp, future_mask, mk, run>>

ExpandLengthBeam ==
    /\ op \in {"initialize", "retain_history", "counted_step"}
    /\ ~err
    /\ \E beam_size \in 1..MaxBeam :
            LET res == regenerate_length_beam(decoder_out, beam_size)
            IN  /\ NumRows(decoder_out.output_tokens) * beam_size <= MaxRows
                /\ \A k \in DOMAIN res.length_tgt : res.length_tgt[k] <= MaxLen
                /\ decoder_out' = res.out
                /\ err' = res.raised
                /\ inp' = [kind |-> "expand_length_beam", beam_size |-> beam_size,
                           before |-> decoder_out, decoder_out |-> res.decoder_out]
    /\ op' = "regenerate_length_beam"
    /\ UNCHANGED <<pred_length_offset, lp, ua, fx, enc, dec, mp, future_mask, mk, run>>

NextBeam == Initialize \/ RetainHistory \/ CountedStep \/ ExpandLengthBeam

SpecBeam == Init /\ [][NextBeam]_vars

\* C30: regenerate_length_beam replaces output_tokens and output_scores alone:
\* the state it returns has the step, max_step, attn and history of the state it
\* was given, scores that are zero at every position of the new token buffer, and
\* the state it was given is after the call as it was before.
C30_OnlyBuffersReplaced ==
    inp.kind = "expand_length_beam" =>
        /\ decoder_out.step = inp.before.step
        /\ decoder_out.max_step = inp.before.max_step
        /\ decoder_out.attn = inp.before.attn
        /\ decoder_out.history = inp.before.history
        /\ DOMAIN decoder_out.output_scores = DOMAIN decoder_out.output_tokens
        /\ \A r \in DOMAIN decoder_out.output_tokens :
               decoder_out.output_scores[r] =
                   [p \in DOMAIN decoder_out.output_tokens[r] |-> 0]
        /\ inp.decoder_out = inp.before

\* An expansion after a recorded, counted step: the state given has step 1, one
\* snapshot and nonzero scores; the state returned has more rows
C30_Witness ==
    /\ inp.kind = "expand_length_beam"
    /\ inp.before.step = 1
    /\ inp.before.history.some /\ Len(inp.before.history.val) = 1
    /\ \E r \in DOMAIN inp.before.output_scores :
           \E p \in DOMAIN inp.before.output_scores[r] : inp.before.output_scores[r][p] # 0
    /\ NumRows(decoder_out.output_tokens) > NumRows(inp.before.output_tokens)
    /\ decoder_out.step = 1

----------------------------------------------------------------------------
(* Two decodes on one model.  The model's decoder is one NATransformerDecoder, *)
(* so both decodes' forward passes use the same self._future_mask.             *)

\* Mutant: the seeding does not look at the step
embedding_copy_at_any_step(step, src_embedding_copy) == src_embedding_copy

\* line 446: embedding_copy=(step == 0) & self.src_embedding_copy
embedding_copy_of(step, src_embedding_copy) == (step = 0) /\ src_embedding_copy

\* lines 522-578: the decoder input of one pass
decoder_input(prev_output_tokens, embedding_copy, curriculum_type) ==
    IF embedding_copy
    THEN embedding_stage(prev_output_tokens, curriculum_type).x
    ELSE plain_embedding(prev_output_tokens)

\* What an input vector contributes to the positions that attend to it
vector_weight(v) ==
    IF v.token = pad THEN 0
    ELSE IF v.kind = "copy_attn" THEN 1
    ELSE IF v.token = "x" THEN 2
    ELSE 3

\* Query p may attend to key t under every mask of the pass.  A mask of another
\* size than the sequence cannot be applied.
mask_fits(mask, T) == ~mask.some \/ Cardinality(DOMAIN mask.val) = T
attends(masks, p, t) == \A l \in DOMAIN masks : ~masks[l].some \/ masks[l].val[p][t] = Zero

RECURSIVE attended(_, _, _, _)
attended(row, masks, p, n) ==
    IF n = 0 THEN 0
    ELSE attended(row, masks, p, n - 1)
             + (IF attends(masks, p, n - 1) THEN vector_weight(row[n - 1]) ELSE 0)

\* output.max(-1) of a decoder whose vocabulary distribution at (row, position)
\* depends on the position and on every vector of the row the position attends to
ArgMaxChoices == <<<<"x", -1>>, <<"y", -2>>, <<pad, -3>>>>

arg_max(x, masks, r, p) ==
    ArgMaxChoices[((attended(x[r], masks, p, Cardinality(DOMAIN x[r])) + p) % Len(ArgMaxChoices)) + 1]

\* lines 441-450 and 493-626: one forward pass of the decoder on a buffer
decoder_forward(cache, prev_output_tokens, step, cfg) ==
    LET embedding_copy == embedding_copy_of(step, cfg.src_embedding_copy)
        x == decoder_input(prev_output_tokens, embedding_copy, cfg.curriculum_type)
        T == Width(prev_output_tokens)
        looped == layer_loop(cache, cfg.curriculum_type, T, cfg.device, PassLayers)
        raised == \E l \in DOMAIN looped.masks : ~mask_fits(looped.masks[l], T)
        masks == IF raised THEN <<>> ELSE looped.masks
    IN  [cache |-> looped.cache, raised |-> raised,
         embedding_copy |-> embedding_copy, x |-> x, masks |-> looped.masks,
         argmax_tokens |-> [r \in DOMAIN x |-> [p \in DOMAIN x[r] |-> arg_max(x, masks, r, p)[1]]],
         argmax_scores |-> [r \in DOMAIN x |-> [p \in DOMAIN x[r] |-> arg_max(x, masks, r, p)[2]]]]

\* Mutant: the buffer is updated one column at a time, and the distribution of a
\* column is computed from the buffer the earlier columns were already written to
RECURSIVE in_place_columns(_, _, _, _)
in_place_columns(cache, d, cfg, n) ==
    IF n = 0 THEN d
    ELSE LET sofar == in_place_columns(cache, d, cfg, n - 1)
             pass == decoder_forward(cache, sofar.output_tokens, d.step, cfg)
         IN  forward_decoder_masked(sofar, pass.argmax_tokens, pass.argmax_scores,
                 [r \in DOMAIN sofar.output_tokens |->
                     [p \in DOMAIN sofar.output_tokens[r] |->
                         p = n - 1 /\ sofar.output_tokens[r][p] # pad]])

refinement_step_in_place(cache, d, cfg) ==
    LET pass == decoder_forward(cache, d.output_tokens, d.step, cfg)
    IN  [cache |-> pass.cache, raised |-> pass.raised,
         prev_output_tokens |-> d.output_tokens,
         embedding_copy |-> pass.embedding_copy, x |-> pass.x, masks |-> pass.masks,
         out |-> IF pass.raised THEN d
                 ELSE in_place_columns(cache, d, cfg, Width(d.output_tokens))]

\* lines 129-159: the decoder is run on the buffer, then the buffer is written
refinement_step(cache, d, cfg) ==
    LET output_tokens == d.output_tokens
        pass == decoder_forward(cache, output_tokens, d.step, cfg)
    IN  [cache |-> pass.cache, raised |-> pass.raised,
         prev_output_tokens |-> output_tokens,
         embedding_copy |-> pass.embedding_copy, x |-> pass.x, masks |-> pass.masks,
         out |-> IF pass.raised THEN d
                 ELSE forward_decoder(d, pass.argmax_tokens, pass.argmax_scores)]

\* The decoder configurations of a model used for decoding
DecodeConfigs ==
    [src_embedding_copy : BOOLEAN, curriculum_type : {"nat", "at_forward"},
     device : {"cuda"}]

\* The states initialize_output_tokens builds for B rows of lengths up to
\* MaxMaskDim: one length for the first row, one for the others
StartStates(B) ==
    {LET length_tgt == [r \in 0..(B - 1) |-> IF r = 0 THEN a ELSE b]
     IN  DecoderOut(initial_output_tokens_of(B, length_tgt).tokens,
                    new_full(B, MaxOf({a, b}), 0), None, 0, 0, None) :
        a \in MinLength..MaxMaskDim,
        b \in IF B = 1 THEN {MinLength} ELSE MinLength..MaxMaskDim}

Decodes == {1, 2}

\* Two decode requests arrive: the first of a batch, the second of one sentence
StartDecodes ==
    /\ run.kind = "none"
    /\ \E cfg \in DecodeConfigs, B \in 1..MaxBatch :
         \E first \in StartStates(B), second \in StartStates(1) :
            run' = [kind |-> "decodes", cfg |-> cfg,
                    start |-> <<first, second>>, d |-> <<first, second>>,
                    raised |-> <<FALSE, FALSE>>, order |-> <<>>, last |-> NoCall]
    /\ UNCHANGED <<pred_length_offset, decoder_out, op, inp, err, lp, ua, fx, enc, dec, mp,
                   future_mask, mk>>

\* The step of one of the decodes: forward_decoder, then the caller advances
\* the step counter of that decode
DecodeStep ==
    /\ run.kind = "decodes"
    /\ \E i \in Decodes :
         /\ ~run.raised[i]
         /\ run.d[i].step < MaxStep
         /\ LET res == refinement_step(future_mask, run.d[i], run.cfg)
            IN  /\ future_mask' = res.cache
                /\ run' = [run EXCEPT
                               !.d[i] = IF res.raised THEN res.out
                                        ELSE [res.out EXCEPT !.step = @ + 1],
                               !.raised[i] = res.raised,
                               !.order = Append(@, i),
                               !.last = [kind |-> "step", who |-> i, before |-> run.d[i],
                                         prev_output_tokens |-> res.prev_output_tokens,
                                         embedding_copy |-> res.embedding_copy,
                                         x |-> res.x, masks |-> res.masks]]
    /\ UNCHANGED <<pred_length_offset, decoder_out, op, inp, err, lp, ua, fx, enc, dec, mp, mk>>

NextDecodes == StartDecodes \/ DecodeStep

SpecDecodes == Init /\ [][NextDecodes]_vars

\* The vocabulary arg-max of a pass over a buffer, whatever the mask cache held
Predicted(buffer, step) ==
    decoder_forward(EmptyMask, buffer, step, run.cfg).argmax_tokens

\* C27: the decoder input of a step is the token buffer the decode's previous
\* step (or its initialisation) returned, and the step writes to every non-pad
\* position the prediction computed from the buffer as it was when the step
\* started, all rows and positions at once; pad positions keep their value.
C27_StepReadsWholeBuffer ==
    (run.kind = "decodes" /\ run.last.kind = "step") =>
        LET i == run.last.who
            before == run.last.before.output_tokens
            after == run.d[i].output_tokens
        IN  /\ run.last.prev_output_tokens = before
            /\ DOMAIN after = DOMAIN before
            /\ \A r \in DOMAIN before :
                   after[r] = [p \in DOMAIN before[r] |->
                                  IF before[r][p] # pad
                                  THEN Predicted(before, run.last.before.step)[r][p]
                                  ELSE before[r][p]]

\* The second step of a decode of two rows: its input is what the first step
\* wrote, and a position to the left of another was rewritten in the same step
C27_Witness ==
    /\ run.kind = "decodes" /\ run.last.kind = "step"
    /\ run.last.who = 1
    /\ run.last.before.step = 1
    /\ NumRows(run.last.before.output_tokens) = 2
    /\ run.last.prev_output_tokens # run.start[1].output_tokens
    /\ \E p \in 1..(Width(run.last.before.output_tokens) - 1) :
           /\ run.d[1].output_tokens[0][p - 1] # run.last.before.output_tokens[0][p - 1]
           /\ run.d[1].output_tokens[0][p] # run.last.before.output_tokens[0][p]

\* A decode run alone for n steps on a decoder no other decode uses
RECURSIVE Alone(_, _)
Alone(start, n) ==
    IF n = 0 THEN [d |-> start, cache |-> EmptyMask, raised |-> FALSE]
    ELSE LET sofar == Alone(start, n - 1)
             res == refinement_step(sofar.cache, sofar.d, run.cfg)
         IN  [d |-> IF res.raised THEN res.out ELSE [res.out EXCEPT !.step = @ + 1],
              cache |-> res.cache, raised |-> sofar.raised \/ res.raised]

\* C28: however the steps of the two decodes are interleaved, each decode has
\* after its n-th step the token and score buffers it has after n steps alone,
\* and no step fails that would not fail alone.
C28_InterleavingInvisible ==
    run.kind = "decodes" =>
        \A i \in Decodes :
            LET alone == Alone(run.start[i], Len(SelectSeq(run.order, LAMBDA w : w = i)))
            IN  /\ run.raised[i] = alone.raised
                /\ run.d[i].output_tokens = alone.d.output_tokens
                /\ run.d[i].output_scores = alone.d.output_scores

\* Steps taken in turn by two decodes of different lengths under a causal mask:
\* the longer decode rebuilt the cache the shorter one then used
C28_Witness ==
    /\ run.kind = "decodes"
    /\ run.cfg.curriculum_type = "at_forward"
    /\ run.order = <<2, 1, 2, 1>>
    /\ Width(run.start[1].output_tokens) > Width(run.start[2].output_tokens)
    /\ future_mask.size = Width(run.start[1].output_tokens)
    /\ run.d[2].output_tokens # run.start[2].output_tokens

\* C29: a pass seeds by copy attention only when copy-source-embedding is on and
\* the state's step is 0; with step > 0, or with copy-source-embedding off, the
\* decoder input is the plain embedding lookup of the current buffer.
C29_SeedingOnlyAtStepZero ==
    (run.kind = "decodes" /\ run.last.kind = "step") =>
        LET step == run.last.before.step
            buffer == run.last.before.output_tokens
            seeded == \E r \in DOMAIN run.last.x :
                          \E p \in DOMAIN run.last.x[r] : run.last.x[r][p].kind = "copy_attn"
        IN  /\ run.last.embedding_copy => (run.cfg.src_embedding_copy /\ step = 0)
            /\ seeded => run.last.embedding_copy
            /\ (step > 0 \/ ~run.cfg.src_embedding_copy) =>
                   run.last.x = plain_embedding(buffer)

\* With copy-source-embedding on, the same decode was seeded by copy attention
\* at step 0 and is fed the plain lookup at step 1
C29_Witness ==
    /\ run.kind = "decodes" /\ run.last.kind = "step"
    /\ run.cfg.src_embedding_copy
    /\ run.last.before.step = 1
    /\ ~run.last.embedding_copy
    /\ run.last.x = plain_embedding(run.last.before.output_tokens)
    /\ decoder_input(run.start[run.last.who].output_tokens,
                     embedding_copy_of(0, run.cfg.src_embedding_copy),
                     run.cfg.curriculum_type)[0][1].kind = "copy_attn"

====
